---- MODULE Spec2Model ----
(***************************************************************************)
(* State-machine model of the FlexSDR DPDK data path (dev-uhd-dpdk):       *)
(*   - flexsdr_rx_streamer  (src/device/flexsdr_rx_streamer.cpp)           *)
(*   - the RX demux worker  (src/workers/rx_worker.cpp, channel_fifo.hpp)  *)
(*   - flexsdr_tx_streamer  (src/device/flexsdr_tx_streamer.cpp)           *)
(*                                                                         *)
(* Conventions.                                                            *)
(*   A packet buffer (rte_mbuf) is a record [id, data]: id is the buffer's *)
(*   identity (its address), data the data_len bytes of its single         *)
(*   segment, as a sequence of bytes 0..255.                               *)
(*   A 64-bit value is kept as its 8 base-256 digits, most significant     *)
(*   first (a "numeral"), because TLC's integers are 32 bits wide. *)
(*   An rte_ring is a sequence, head first.                                *)
(***************************************************************************)
EXTENDS Integers, Sequences, FiniteSets, TLC

(***************************************************************************)
(* Bounds of the model                                                     *)
(***************************************************************************)
\* packets the external producer puts on the RX streamer's ring
MaxPkts == 2
\* samples per channel in one produced packet
MaxSamps == 2
\* largest nsamps_per_buff a caller passes to recv
MaxReq == 2
\* packets the external producer puts on the demux worker's ingress ring
MaxIngress == 3
\* packets the producer enqueues when two blocks are followed
MaxBlockIngress == 4
\* send calls made on one TX streamer
MaxSends == 2
\* samples per buffer of one send call
MaxTxSamps == 3
\* usable slots of the TX ring
TxRingCap == 1
\* mbufs of the TX pool that are free when the streamer is constructed, at most
TxPoolSize == 2
\* send_burst calls made on one FlexSDRSecondary
MaxSecCalls == 3
\* usable slots of each TX ring of the secondary
SecRingCap == 1
\* mbufs of each pool of the secondary
SecPoolSize == 2
\* calls of init_resources and create_one_ring that the primaries and the
\* secondary make in all
MaxPriOps == 3
\* rings in an interconnect list
MaxIcRings == 3
\* packets the two secondaries hand to the traffic switch in all
MaxSwPkts == 5
\* objects a ring of the traffic switch holds
SwRingCap == 2
\* push calls the producer thread makes on the shared queue
MaxSpscPush == 6
\* push, pop and clear calls made on the queue called from one thread
MaxFifoCalls == 6

(***************************************************************************)
(* Program constants                                                       *)
(***************************************************************************)
\* options::tsf_offset and options::vrt_hdr_bytes as the header declares them
DefaultTsfOffset == 24
DefaultVrtHdrBytes == 32

(***************************************************************************)
(* Bytes, integers in memory                                               *)
(***************************************************************************)
Min(a, b) == IF a < b THEN a ELSE b

Zeros(n) == [i \in 1..n |-> 0]

Reverse(s) == [i \in 1..Len(s) |-> s[Len(s) + 1 - i]]

\* memcpy(p + off, b, Len(b)) inside a buffer whose bytes are p
Overwrite(p, off, b) ==
    [i \in 1..Len(p) |-> IF i > off /\ i <= off + Len(b) THEN b[i - off] ELSE p[i]]

\* the 4 bytes htonl(v) puts in memory
BE32(v) == << (v \div 16777216) % 256, (v \div 65536) % 256, (v \div 256) % 256, v % 256 >>

\* the numeral of a tick count t < 2^31
U64(t) == Zeros(4) \o BE32(t)

\* the bytes htobe64(x) puts in memory are x's numeral
HtoBE64(numeral) == numeral

\* a native 64-bit load on the little-endian hosts the project builds for:
\* the byte at the lowest address is the least significant digit
NativeLoadU64(bytes) == Reverse(bytes)

\* the int16 stored natively at byte offset off (0-based) of data, as 0..65535
NativeLoadI16(data, off) == data[off + 1] + 256 * data[off + 2]

\* the bytes of a native int16 store
NativeStoreI16(v) == << v % 256, (v \div 256) % 256 >>

(***************************************************************************)
(* State                                                                   *)
(***************************************************************************)
VARIABLES
    opt,          \* flexsdr_rx_streamer::options
    rxRing,       \* opt_.ring: the rte_ring the RX streamer dequeues from
    running,      \* flexsdr_rx_streamer::running_
    recvCall,     \* the recv call in flight: pc, nsamps_per_buff, poll_attempts, timeout state
    md,           \* the caller's uhd::rx_metadata_t
    chBuffs,      \* the caller's buffers: per channel, the int16 values the last call wrote
    recvRet,      \* the last return of recv: which return statement, its value, the flags then
    rxProduced,   \* history: number of packets the producer has enqueued
    rxTaken,      \* history: the packets recv has dequeued, in order
    rxDelivered,  \* history: per channel, the samples written to the caller over all calls
    cfg,          \* RxWorkerConfig of the demux worker
    inRing,       \* cfg.ring: the ingress ring
    run_flag,     \* *cfg.run_flag
    worker,       \* the demux thread: position, objs[], i, pkt_idx, block_tsf_*
    fifos,        \* *cfg.fifos: one SpscQueue<RxPacket> per channel
    counters,     \* the worker's drops and handled counters
    dmxProduced,  \* history: number of packets enqueued on the ingress ring
    dmxSeen,      \* history: the packets the worker has dequeued, in order
    dmxAssigned,  \* history: per channel, the records the worker built for it
    dmxPopped     \* history: per channel, the records the consumer has popped

\* ---- flexsdr_tx_streamer (flexsdr_tx_streamer.cpp)
VARIABLES
    txs,          \* spp_, burst_, allow_partial_, the tailroom of a fresh mbuf of pool_, alive
    staged,       \* staged_[0 .. staged_i_)
    txRing,       \* tx_ring_, oldest first
    txPoolFree,   \* free mbufs of pool_
    txAllocated,  \* history: mbufs allocated by send so far (the next gets id + 1)
    txFreed,      \* history: the mbufs the streamer released to the pool (id, samples)
    txEnqueued,   \* history: the mbufs the streamer enqueued on the ring (id, samples)
    txCalls,      \* history: send calls made
    txAccepted,   \* history: sum of the values send returned
    txRet         \* the last send call: its arguments, its result, what it built

rxVars == << opt, rxRing, running, recvCall, md, chBuffs, recvRet,
             rxProduced, rxTaken, rxDelivered >>

dmxVars == << cfg, inRing, run_flag, worker, fifos, counters,
              dmxProduced, dmxSeen, dmxAssigned, dmxPopped >>

\* ---- the header encoders and decoders, applied to one input at a time
VARIABLES
    codec         \* the last application: the operation, its inputs, its results

txVars == << txs, staged, txRing, txPoolFree, txAllocated, txFreed, txEnqueued,
            txCalls, txAccepted, txRet >>

codecVars == << codec >>

\* ---- FlexSDRSecondary::send_burst (flexsdr_secondary.cpp)
VARIABLES
    sec,          \* sizes of tx_rings_ and pools_, the tailroom of a fresh mbuf
    secRings,     \* the TX rings, by channel, oldest first
    secPoolFree,  \* free mbufs of each pool
    secHist,      \* history: mbufs allocated, ids released by send_burst, ids enqueued
    secRet        \* the last send_burst call: its arguments, its mbuf, its result

secVars == << sec, secRings, secPoolFree, secHist, secRet >>

\* ---- FlexSDRPrimary and create_one_ring on the shared DPDK memory
VARIABLES
    rteRings,     \* the named rings: the count each was created with, 0 if absent
    rtePools,     \* the names of the pools
    rteCreated,   \* history: ring objects created so far under each name
    pri,          \* each process: its configuration, position, handles, results
    secm          \* the FlexSDRSecondary attached to the same memory, likewise

priVars == << rteRings, rtePools, rteCreated, pri, secm >>

\* ---- the primary's traffic switch (testcase_traffic_switch.cpp)
VARIABLES
    sw            \* the four rings, the loop's position and counters, history

swVars == << sw >>

\* ---- one SpscQueue with a producer thread and a consumer thread
\* ---- (channel_fifo.hpp)
VARIABLES
    spsc          \* _buf, _head, _tail, each thread's position and locals, history

spscVars == << spsc >>

\* ---- one SpscQueue<RxPacket> called from one thread (channel_fifo.hpp)
VARIABLES
    fifo          \* the queue, and the last call: its result, the queue before it

fifoVars == << fifo >>

\* ---- the thread that calls stop_rx_worker (rx_worker.cpp)
VARIABLES
    joiner        \* where the caller of stop_rx_worker stands

joinVars == << joiner >>

vars == << rxVars, dmxVars, txVars, codecVars, secVars, priVars, swVars, spscVars, fifoVars, joinVars >>

\* what the actions of one component leave alone: the other components
notRx == << dmxVars, txVars, codecVars, secVars, priVars, swVars, spscVars, fifoVars, joinVars >>
notDmx == << rxVars, txVars, codecVars, secVars, priVars, swVars, spscVars, fifoVars, joinVars >>
notTx == << rxVars, dmxVars, codecVars, secVars, priVars, swVars, spscVars, fifoVars, joinVars >>
notCodec == << rxVars, dmxVars, txVars, secVars, priVars, swVars, spscVars, fifoVars, joinVars >>
notSec == << rxVars, dmxVars, txVars, codecVars, priVars, swVars, spscVars, fifoVars, joinVars >>
notPri == << rxVars, dmxVars, txVars, codecVars, secVars, swVars, spscVars, fifoVars, joinVars >>
notSw == << rxVars, dmxVars, txVars, codecVars, secVars, priVars, spscVars, fifoVars, joinVars >>
notSpsc == << rxVars, dmxVars, txVars, codecVars, secVars, priVars, swVars, fifoVars, joinVars >>
notFifo == << rxVars, dmxVars, txVars, codecVars, secVars, priVars, swVars, spscVars, joinVars >>
notJoin == << rxVars, dmxVars, txVars, codecVars, secVars, priVars, swVars, spscVars, fifoVars >>

(***************************************************************************)
(* The packets on the RX streamer's ring                                   *)
(***************************************************************************)
\* a write_vrt whose length field rounds down
WriteVrtRoundingDown(p, hdr_bytes, stream_id, tsf_ticks, payload_bytes, tsf_offset) ==
    LET p1 == Overwrite(p, 0, BE32((hdr_bytes + payload_bytes) \div 4))
        p2 == Overwrite(p1, 4, BE32(stream_id))
    IN IF hdr_bytes >= tsf_offset + 8
       THEN Overwrite(p2, tsf_offset, HtoBE64(tsf_ticks))
       ELSE p2

\* write_vrt of the TX worker on the header bytes p
WriteVrt(p, hdr_bytes, stream_id, tsf_ticks, payload_bytes, tsf_offset) ==
    LET words == (hdr_bytes + payload_bytes + 3) \div 4
        p1 == Overwrite(p, 0, BE32(words))
        p2 == Overwrite(p1, 4, BE32(stream_id))
    IN IF hdr_bytes >= tsf_offset + 8
       THEN Overwrite(p2, tsf_offset, HtoBE64(tsf_ticks))
       ELSE p2

\* payload of n samples for each of nch channels, interleaved
\* [CH0_I, CH0_Q, CH1_I, CH1_Q, ...]; the int16 values count up from first
IqValues(first, n, nch) == [j \in 1..(2 * n * nch) |-> first + j - 1]

RECURSIVE StoreValues(_)
StoreValues(vals) ==
    IF vals = << >> THEN << >>
    ELSE NativeStoreI16(Head(vals)) \o StoreValues(Tail(vals))

\* a buffer as the producer (the primary's TX side) fills it: header, then the
\* samples; n samples per channel, the int16 values counting up from first
EncodedPacket(hdr_bytes, tsf_offset, stream_id, tick, first, n, nch) ==
    LET payload == StoreValues(IqValues(first, n, nch))
    IN WriteVrt(Zeros(hdr_bytes), hdr_bytes, stream_id, U64(tick), Len(payload), tsf_offset)
       \o payload

\* the k-th packet of the producer: well formed with n samples per channel, or
\* (n = MaxSamps + 1) cut off after its first 8 bytes
ProducedData(k, n) ==
    LET nch == IF opt.num_channels # 0 THEN opt.num_channels ELSE 1
        full == EncodedPacket(opt.vrt_hdr_bytes, opt.tsf_offset, k, 16 + k,
                              1 + (k - 1) * 2 * MaxSamps * nch,
                              IF n > MaxSamps THEN 0 ELSE n, nch)
    IN IF n > MaxSamps THEN SubSeq(full, 1, 8) ELSE full

(***************************************************************************)
(* flexsdr_rx_streamer                                                     *)
(***************************************************************************)
get_num_channels == IF opt.num_channels # 0 THEN opt.num_channels ELSE 1

\* extract_tsf_: 0 for a packet too short to hold the field, else a native load
extract_tsf_(m) ==
    IF Len(m.data) < opt.tsf_offset + 8
    THEN Zeros(8)
    ELSE NativeLoadU64(SubSeq(m.data, opt.tsf_offset + 1, opt.tsf_offset + 8))

\* m->data_len - opt_.vrt_hdr_bytes is computed in size_t: for a packet shorter
\* than the header it wraps to 2^64 - (hdr - len), and samps_in_pkt becomes a
\* count no nsamps_target reaches.  TRUE when that happens.
PayloadWraps(m) == Len(m.data) < opt.vrt_hdr_bytes

\* samps_in_pkt of a packet at least as long as the header
samps_in_pkt(m) ==
    ((Len(m.data) - opt.vrt_hdr_bytes) \div 2) \div (get_num_channels * 2)

\* src[k]: the k-th int16 after the header; past the packet's data the load
\* reads whatever the buffer holds there, g
SrcValue(m, k, g) ==
    IF opt.vrt_hdr_bytes + 2 * k + 2 <= Len(m.data)
    THEN NativeLoadI16(m.data, opt.vrt_hdr_bytes + 2 * k)
    ELSE g

\* the I and Q values the inner loop copies to channel ch (0-based) for the
\* first n samples of m
CopiedValues(m, ch, n, g) ==
    [j \in 1..(2 * n) |->
        SrcValue(m, ((j - 1) \div 2) * get_num_channels * 2 + ch * 2 + ((j - 1) % 2), g)]

\* the loop over the dequeued packets of default_unpack_sc16_interleaved_,
\* from packet i on; out[ch] holds the 2 * total_samples values written so far
RECURSIVE UnpackLoop(_, _, _, _, _)
UnpackLoop(mbufs, i, nsamps_target, out, g) ==
    LET total_samples == Len(out[1]) \div 2
    IN IF i > Len(mbufs) \/ total_samples >= nsamps_target
       THEN out
       ELSE LET m == mbufs[i]
                room == nsamps_target - total_samples
                n == IF PayloadWraps(m) THEN room ELSE Min(samps_in_pkt(m), room)
            IN UnpackLoop(mbufs, i + 1, nsamps_target,
                          [ch \in 1..get_num_channels |->
                              out[ch] \o CopiedValues(m, ch - 1, n, g)], g)

\* default_unpack_sc16_interleaved_: the buffers' contents, the count returned
\* and the metadata it leaves
default_unpack_sc16_interleaved_(mbufs, nsamps_target, meta, g) ==
    LET out == UnpackLoop(mbufs, 1, nsamps_target,
                          [ch \in 1..get_num_channels |-> << >>], g)
        md1 == IF opt.parse_tsf /\ Len(mbufs) > 0
               THEN [meta EXCEPT !.time_spec = extract_tsf_(mbufs[1]),
                                 !.has_time_spec = TRUE]
               ELSE [meta EXCEPT !.has_time_spec = FALSE]
    IN [buffs |-> out,
        total_samples |-> Len(out[1]) \div 2,
        md |-> [md1 EXCEPT !.error_code = "NONE"]]

\* what recv writes to the metadata after unpacking
RecvSetMetadata(meta) ==
    [meta EXCEPT !.error_code = "NONE", !.has_time_spec = opt.parse_tsf]

\* a poll loop that never looks at running_
poll_loop_cond_ignores_stop == TRUE

\* the poll loop's condition at the loop head, where n_dequeued is still 0:
\* n_dequeued == 0 && running_.load()
poll_loop_cond == running

\* values a load past the end of a packet's data may return
GarbageValues == {0, 255}

\* uhd::rx_metadata_t as its constructor leaves it
FreshMetadata == [error_code |-> "NONE", has_time_spec |-> FALSE, time_spec |-> Zeros(8)]

\* no recv call has returned since the last one was entered
NoReturn ==
    [exit |-> "none", n |-> 0, nsamps |-> 0, n_dequeued |-> 0,
     expired |-> FALSE, running |-> FALSE]

NoCall == [pc |-> "idle", nsamps |-> 0, expired |-> FALSE]

\* recv returns n through the return statement named exit, having dequeued
\* n_dequeued packets
RecvReturn(exit, n, n_dequeued, meta) ==
    /\ md' = meta
    /\ recvRet' = [exit |-> exit, n |-> n, nsamps |-> recvCall.nsamps,
                   n_dequeued |-> n_dequeued,
                   expired |-> recvCall.expired, running |-> running]
    /\ recvCall' = NoCall

\* issue_stream_cmd
issue_stream_cmd(mode) ==
    /\ running' = CASE mode = "START_CONTINUOUS" -> TRUE
                    [] mode = "STOP_CONTINUOUS" -> FALSE
                    [] mode = "NUM_SAMPS_AND_DONE" -> TRUE
                    [] mode = "NUM_SAMPS_AND_MORE" -> TRUE
                    [] OTHER -> running
    /\ UNCHANGED << opt, rxRing, recvCall, md, chBuffs, recvRet,
                    rxProduced, rxTaken, rxDelivered >>
    /\ UNCHANGED notRx

IssueStreamCmd ==
    \E mode \in {"START_CONTINUOUS", "STOP_CONTINUOUS", "NUM_SAMPS_AND_DONE",
                 "NUM_SAMPS_AND_MORE", "UNKNOWN"} :
        issue_stream_cmd(mode)

\* recv, from its entry to the first evaluation of the poll loop's condition.
\* The caller passes a freshly constructed rx_metadata_t (as test_rx_reception
\* does) and buffers whose previous contents it no longer reads.
RecvEnter ==
    /\ recvCall.pc = "idle"
    /\ \E nsamps \in 0..MaxReq, zero_timeout \in BOOLEAN :
        LET call == [pc |-> "poll", nsamps |-> nsamps, expired |-> zero_timeout]
        IN IF ~opt.ring_ok
           THEN /\ md' = [FreshMetadata EXCEPT !.error_code = "TIMEOUT"]
                /\ recvRet' = [exit |-> "no_ring", n |-> 0, nsamps |-> nsamps, n_dequeued |-> 0,
                               expired |-> zero_timeout, running |-> running]
                /\ UNCHANGED recvCall
           ELSE IF ~running
           THEN /\ md' = [FreshMetadata EXCEPT !.error_code = "TIMEOUT"]
                /\ recvRet' = [exit |-> "not_running", n |-> 0, nsamps |-> nsamps, n_dequeued |-> 0,
                               expired |-> zero_timeout, running |-> running]
                /\ UNCHANGED recvCall
           ELSE /\ recvCall' = call
                /\ md' = FreshMetadata
                /\ recvRet' = NoReturn
    /\ chBuffs' = [ch \in 1..get_num_channels |-> << >>]
    /\ UNCHANGED << opt, rxRing, running, rxProduced, rxTaken, rxDelivered >>
    /\ UNCHANGED notRx

\* one evaluation of the poll loop's condition and, when it holds, one pass
\* through the loop's body; on leaving the loop, the rest of recv.
\* poll_attempts is local to the call and is read only by the sleep threshold
\* (which changes no state) and by poll_attempts % TIMEOUT_CHECK_INTERVAL == 0:
\* a pass that finds the ring empty and is not a checking pass changes nothing
\* but the counter, so the counter is left out and whether a pass is a
\* checking pass (check_due) is a choice.
RecvPoll ==
    /\ recvCall.pc = "poll"
    /\ IF ~poll_loop_cond
       THEN \* loop left with n_dequeued = 0: the stream was stopped
            /\ RecvReturn("stopped", 0, 0, [md EXCEPT !.error_code = "TIMEOUT"])
            /\ UNCHANGED << rxRing, chBuffs, rxTaken, rxDelivered >>
       ELSE LET n_dequeued == Min(opt.burst_size, Len(rxRing))
            IN IF n_dequeued > 0
               THEN \E g \in GarbageValues :
                    LET mbufs == SubSeq(rxRing, 1, n_dequeued)
                        u == default_unpack_sc16_interleaved_(mbufs, recvCall.nsamps, md, g)
                    IN /\ rxRing' = SubSeq(rxRing, n_dequeued + 1, Len(rxRing))
                       /\ chBuffs' = u.buffs
                       /\ rxTaken' = rxTaken \o mbufs
                       /\ rxDelivered' = [ch \in 1..get_num_channels |->
                                             rxDelivered[ch] \o u.buffs[ch]]
                       /\ RecvReturn("data", u.total_samples, n_dequeued, RecvSetMetadata(u.md))
               ELSE \E check_due \in BOOLEAN :
                    IF check_due /\ recvCall.expired
                    THEN /\ RecvReturn("timeout", 0, 0, [md EXCEPT !.error_code = "TIMEOUT"])
                         /\ UNCHANGED << rxRing, chBuffs, rxTaken, rxDelivered >>
                    ELSE UNCHANGED << rxRing, chBuffs, rxTaken, rxDelivered, md,
                                      recvRet, recvCall >>
    /\ UNCHANGED << opt, running, rxProduced >>
    /\ UNCHANGED notRx

\* the steady clock passes the call's timeout
RecvTimeoutElapses ==
    /\ recvCall.pc = "poll"
    /\ ~recvCall.expired
    /\ recvCall' = [recvCall EXCEPT !.expired = TRUE]
    /\ UNCHANGED << opt, rxRing, running, md, chBuffs, recvRet,
                    rxProduced, rxTaken, rxDelivered >>
    /\ UNCHANGED notRx

\* the external producer enqueues one packet on the ring: n samples per
\* channel, or (n = MaxSamps + 1) a packet cut off inside its header
RxProducePacket(n) ==
    /\ opt.ring_ok
    /\ rxProduced < MaxPkts
    /\ rxRing' = Append(rxRing, [id |-> rxProduced + 1,
                                 data |-> ProducedData(rxProduced + 1, n)])
    /\ rxProduced' = rxProduced + 1
    /\ UNCHANGED << opt, running, recvCall, md, chBuffs, recvRet, rxTaken, rxDelivered >>
    /\ UNCHANGED notRx

RxProduce == \E n \in 0..(MaxSamps + 1) : RxProducePacket(n)

\* a producer of one-sample packets only
RxProduceSingle == RxProducePacket(1)

RxOptions ==
    [ring_ok : BOOLEAN, num_channels : {1, 2}, burst_size : {1, 2},
     parse_tsf : BOOLEAN, tsf_offset : {DefaultTsfOffset},
     vrt_hdr_bytes : {DefaultVrtHdrBytes}]

\* the streamer constructed, nothing started
RxStart ==
    /\ opt \in RxOptions
    /\ rxRing = << >>
    /\ running = FALSE
    /\ recvCall = NoCall
    /\ md = FreshMetadata
    /\ chBuffs = [ch \in 1..get_num_channels |-> << >>]
    /\ recvRet = NoReturn
    /\ rxProduced = 0
    /\ rxTaken = << >>
    /\ rxDelivered = [ch \in 1..get_num_channels |-> << >>]

(***************************************************************************)
(* SpscQueue<RxPacket>                      (channel_fifo.hpp)             *)
(***************************************************************************)
\* RxPacket{}: the record as its default member initialisers leave it; src is
\* history, the id of the buffer the record was decoded from
DefaultRxPacket ==
    [stream_id |-> 0, tsf_ticks |-> Zeros(8), have_tsf |-> FALSE, sob |-> FALSE,
     eob |-> TRUE, chan |-> 0, nsamps |-> 0, iq |-> << >>, src |-> 0]

\* the constructor: the capacity rounded up to a power of two, head = tail = 0
RECURSIVE NextPow2(_, _)
NextPow2(p, cap) == IF p < cap THEN NextPow2(2 * p, cap) ELSE p

SpscQueue(capacity_pow2) ==
    LET c0 == IF capacity_pow2 # 0 THEN capacity_pow2 ELSE 1024
        c == NextPow2(1, c0)
    IN [cap |-> c, buf |-> [k \in 0..(c - 1) |-> DefaultRxPacket], head |-> 0, tail |-> 0]

\* h & _mask, with _mask = _cap - 1 and _cap a power of two
Slot(q, h) == h % q.cap

\* _head and _tail are std::size_t counters that only ever grow by one and
\* wrap at 2^64.  A counter is written here as an integer c that stands for
\* c mod 2^64, so that -1 is the largest value and -1 + 1 = 0 is the wrap.
\* The std::size_t difference d of two counters that stands for a negative
\* integer is a value near 2^64, larger than any capacity:
SizeGt(d, c) == d < 0 \/ d > c

\* a push that makes room on a full queue by giving up the oldest element
push_over_oldest(q, v) ==
    LET h == q.head
        n == h + 1
        t == IF n - q.tail > q.cap THEN q.tail + 1 ELSE q.tail
    IN [ok |-> TRUE, q |-> [q EXCEPT !.buf[Slot(q, h)] = v, !.head = n, !.tail = t]]

\* push(T&&): [ok, q]
push(q, v) ==
    LET h == q.head
        n == h + 1
    IN IF SizeGt(n - q.tail, q.cap)
       THEN [ok |-> FALSE, q |-> q]
       ELSE [ok |-> TRUE, q |-> [q EXCEPT !.buf[Slot(q, h)] = v, !.head = n]]

\* a pop that takes the newest element instead of the oldest
pop_newest(q) ==
    LET t == q.tail
    IN IF t = q.head
       THEN [ok |-> FALSE, out |-> DefaultRxPacket, q |-> q]
       ELSE [ok |-> TRUE, out |-> q.buf[Slot(q, q.head - 1)], q |-> [q EXCEPT !.tail = t + 1]]

\* pop: [ok, out, q]; the slot is left moved-from (its vector emptied)
pop(q) ==
    LET t == q.tail
    IN IF t = q.head
       THEN [ok |-> FALSE, out |-> DefaultRxPacket, q |-> q]
       ELSE [ok |-> TRUE, out |-> q.buf[Slot(q, t)],
             q |-> [q EXCEPT !.buf[Slot(q, t)].iq = << >>, !.tail = t + 1]]

\* size(): h - t as a std::size_t
spsc_size(q) == q.head - q.tail

\* a clear that rewinds _tail to 0
clear_rewinds_tail(q) == [q EXCEPT !.tail = 0]

\* clear(): _tail.store(_head.load())
clear(q) == [q EXCEPT !.tail = q.head]

(***************************************************************************)
(* The RX demux worker                      (rx_worker.cpp)                *)
(***************************************************************************)
\* constexpr unsigned BURST
BURST == 64
\* the group size used when cfg.pkts_per_chan is 0
DefaultPktsPerChan == 8

\* load_u32_be on a little-endian host: the big-endian value of 4 bytes
load_u32_be(data, off) ==
    data[off + 1] * 16777216 + data[off + 2] * 65536 + data[off + 3] * 256 + data[off + 4]

\* copy_payload_sc16 for a single-segment packet: [ok, nsamps, iq]
copy_payload_sc16(m, hdr_bytes) ==
    LET pkt_len == Len(m.data)
        payload_bytes == pkt_len - hdr_bytes
    IN IF pkt_len < hdr_bytes THEN [ok |-> FALSE, nsamps |-> 0, iq |-> << >>]
       ELSE IF payload_bytes % 4 # 0 THEN [ok |-> FALSE, nsamps |-> 0, iq |-> << >>]
       ELSE IF payload_bytes \div 4 = 0 THEN [ok |-> FALSE, nsamps |-> 0, iq |-> << >>]
       ELSE [ok |-> TRUE, nsamps |-> payload_bytes \div 4,
             iq |-> SubSeq(m.data, hdr_bytes + 1, pkt_len)]

\* a parse_vrt that wants a byte more than the timestamp behind tsf_off
parse_vrt_one_byte_more(m, hdr_bytes, tsf_off, tsf_present) ==
    LET pkt_len == Len(m.data)
        have == tsf_present /\ pkt_len - tsf_off > 8
        pl == copy_payload_sc16(m, hdr_bytes)
    IN [ok |-> pl.ok,
        p |-> [DefaultRxPacket EXCEPT !.stream_id = IF pkt_len < 8 THEN 0
                                                   ELSE load_u32_be(m.data, 4),
                                      !.have_tsf = have,
                                      !.tsf_ticks = IF have
                                                    THEN SubSeq(m.data, tsf_off + 1, tsf_off + 8)
                                                    ELSE Zeros(8),
                                      !.nsamps = pl.nsamps, !.iq = pl.iq, !.src = m.id]]

\* parse_vrt for a single-segment packet: [ok, p]
parse_vrt(m, hdr_bytes, tsf_off, tsf_present) ==
    LET pkt_len == Len(m.data)
        sid == IF pkt_len < 8 THEN 0 ELSE load_u32_be(m.data, 4)
        \* the 8 bytes are all there iff the segment reaches tsf_off + 8
        got8 == tsf_off < pkt_len /\ pkt_len - tsf_off >= 8
        have == tsf_present /\ got8
        ticks == IF have THEN SubSeq(m.data, tsf_off + 1, tsf_off + 8) ELSE Zeros(8)
        pl == copy_payload_sc16(m, hdr_bytes)
    IN [ok |-> pl.ok,
        p |-> [DefaultRxPacket EXCEPT !.stream_id = sid, !.have_tsf = have,
                                      !.tsf_ticks = ticks, !.nsamps = pl.nsamps,
                                      !.iq = pl.iq, !.src = m.id]]

\* const unsigned N
GroupSize == IF cfg.pkts_per_chan # 0 THEN cfg.pkts_per_chan ELSE DefaultPktsPerChan

\* the record after the block timestamp rule, and the block state it leaves:
\* [p, valid, ticks]
ApplyBlockTsf(p, pkt_idx, valid, ticks) ==
    LET block_beg == pkt_idx % (cfg.num_channels * GroupSize) = 0
    IN IF block_beg
       THEN [p |-> p, valid |-> p.have_tsf,
             ticks |-> IF p.have_tsf THEN p.tsf_ticks ELSE Zeros(8)]
       ELSE IF valid
       THEN [p |-> [p EXCEPT !.have_tsf = TRUE, !.tsf_ticks = ticks],
             valid |-> valid, ticks |-> ticks]
       ELSE [p |-> p, valid |-> valid, ticks |-> ticks]

\* the channel and the burst flags of the record, by framing
AssignChannel(p, pkt_idx) ==
    IF cfg.mode = "Planar"
    THEN [p EXCEPT !.chan = (pkt_idx \div GroupSize) % cfg.num_channels,
                   !.sob = (pkt_idx % GroupSize = 0),
                   !.eob = (pkt_idx % GroupSize = GroupSize - 1)]
    ELSE [p EXCEPT !.chan = 0]

\* a counter that advances for decoded packets only
NextPktIdxDecodedOnly(pkt_idx, decoded) == IF decoded THEN pkt_idx + 1 ELSE pkt_idx

\* ++pkt_idx, on the decode-failure path and at the end of the loop body
NextPktIdx(pkt_idx, decoded) == pkt_idx + 1

\* the demux thread is not started
\* freed and freed_stopped are history: the ids of the mbufs the thread has
\* released, and how many of them it released with run_flag already false
ParkedWorker ==
    [pc |-> "none", objs |-> << >>, i |-> 0, pkt_idx |-> 0,
     block_tsf_valid |-> FALSE, block_tsf_ticks |-> Zeros(8),
     freed |-> << >>, freed_stopped |-> 0]

\* whether the loop body calls rte_pktmbuf_free on its packet, by what became
\* of the packet: "parse_error", "pushed" or "dropped"
rx_worker_frees_unless_dropped(outcome) == outcome \in {"parse_error", "pushed"}

rx_worker_frees(outcome) == outcome \in {"parse_error", "pushed", "dropped"}

\* a loop condition that does not look at run_flag
demux_loop_cond_ignores_flag == TRUE

\* the condition of the worker's while loop
demux_loop_cond == run_flag

\* the loop head: run_flag is read, then one dequeue of up to BURST packets
DemuxLoop ==
    /\ worker.pc = "loop"
    /\ IF ~demux_loop_cond
       THEN /\ worker' = [worker EXCEPT !.pc = "exit"]
            /\ UNCHANGED << inRing, dmxSeen >>
       ELSE LET n == Min(BURST, Len(inRing))
            IN IF n = 0
               THEN UNCHANGED << worker, inRing, dmxSeen >>
               ELSE /\ worker' = [worker EXCEPT !.pc = "burst",
                                                !.objs = SubSeq(inRing, 1, n), !.i = 1]
                    /\ inRing' = SubSeq(inRing, n + 1, Len(inRing))
                    /\ dmxSeen' = dmxSeen \o SubSeq(inRing, 1, n)
    /\ UNCHANGED << cfg, run_flag, fifos, counters, dmxProduced, dmxAssigned, dmxPopped >>
    /\ UNCHANGED notDmx

\* the body of the for loop for objs[i]
DemuxPacket ==
    /\ worker.pc = "burst"
    /\ LET m == worker.objs[worker.i]
           parsed == parse_vrt(m, cfg.vrt_hdr_bytes, cfg.tsf_offset, cfg.tsf_present)
           blk == ApplyBlockTsf(parsed.p, worker.pkt_idx,
                                worker.block_tsf_valid, worker.block_tsf_ticks)
           p == AssignChannel(blk.p, worker.pkt_idx)
           ch == p.chan + 1
           res == push(fifos[ch], p)
           last == worker.i = Len(worker.objs)
           outcome == IF ~parsed.ok THEN "parse_error"
                      ELSE IF res.ok THEN "pushed" ELSE "dropped"
           w1 == [worker EXCEPT !.pkt_idx = NextPktIdx(@, parsed.ok),
                                !.freed = IF rx_worker_frees(outcome)
                                          THEN Append(@, m.id) ELSE @,
                                !.freed_stopped = IF rx_worker_frees(outcome) /\ ~run_flag
                                                  THEN @ + 1 ELSE @,
                                !.i = IF last THEN 0 ELSE @ + 1,
                                !.objs = IF last THEN << >> ELSE @,
                                !.pc = IF last THEN "loop" ELSE "burst"]
       IN IF ~parsed.ok
          THEN /\ worker' = w1
               /\ UNCHANGED << fifos, counters, dmxAssigned >>
          ELSE /\ worker' = [w1 EXCEPT !.block_tsf_valid = blk.valid,
                                       !.block_tsf_ticks = blk.ticks]
               /\ fifos' = [fifos EXCEPT ![ch] = res.q]
               /\ counters' = IF res.ok
                              THEN [counters EXCEPT !.handled = @ + 1]
                              ELSE [counters EXCEPT !.drops = @ + 1,
                                                    !.dropped_on = @ \cup {ch}]
               /\ dmxAssigned' = [dmxAssigned EXCEPT ![ch] = Append(@, p)]
    /\ UNCHANGED << cfg, inRing, run_flag, dmxProduced, dmxSeen, dmxPopped >>
    /\ UNCHANGED notDmx

\* the owner of run_flag clears it
DemuxStop ==
    /\ worker.pc \in {"loop", "burst"}
    /\ run_flag
    /\ run_flag' = FALSE
    /\ UNCHANGED << cfg, inRing, worker, fifos, counters,
                    dmxProduced, dmxSeen, dmxAssigned, dmxPopped >>
    /\ UNCHANGED notDmx

\* the consumer of channel ch pops one record
FifoPop ==
    /\ worker.pc # "none"
    /\ \E ch \in 1..cfg.num_channels :
        LET res == pop(fifos[ch])
        IN /\ res.ok
           /\ fifos' = [fifos EXCEPT ![ch] = res.q]
           /\ dmxPopped' = [dmxPopped EXCEPT ![ch] = Append(@, res.out)]
    /\ UNCHANGED << cfg, inRing, run_flag, worker, counters,
                    dmxProduced, dmxSeen, dmxAssigned >>
    /\ UNCHANGED notDmx

\* the k-th packet of the ingress ring: n samples of one channel (Planar)
\* behind the header; n = 0 is a header-only packet, which does not decode
IngressData(k, n) ==
    EncodedPacket(cfg.vrt_hdr_bytes, cfg.tsf_offset, k, 16 + k, 10 * k + 1, n, 1)

\* the sample counts of the packets the producer makes: none (undecodable),
\* one, two
IngressShapes == {0, 1, 2}

\* the external producer enqueues one packet on the ingress ring, the
\* (dmxProduced + 1)-st of at most limit
dmx_produce(limit) ==
    /\ worker.pc # "none"
    /\ dmxProduced < limit
    /\ \E n \in IngressShapes :
        inRing' = Append(inRing, [id |-> dmxProduced + 1,
                                  data |-> IngressData(dmxProduced + 1, n)])
    /\ dmxProduced' = dmxProduced + 1
    /\ UNCHANGED << cfg, run_flag, worker, fifos, counters,
                    dmxSeen, dmxAssigned, dmxPopped >>
    /\ UNCHANGED notDmx

DmxProduce == dmx_produce(MaxIngress)

\* a producer that goes on for two whole blocks of two packets
DmxProduceBlocks == dmx_produce(MaxBlockIngress)

\* the configurations of the worker: the default header layout (timestamp at
\* 24 in a 32-byte header) with and without timestamps, with an explicit group
\* size, with the default group size and a one-slot queue, and with the
\* Interleaved placeholder; and a layout whose timestamp field lies behind an
\* 8-byte header, so that a one-sample packet is too short to carry it
RxWorkerConfigs ==
    [vrt_hdr_bytes : {DefaultVrtHdrBytes}, tsf_offset : {DefaultTsfOffset},
     tsf_present : BOOLEAN, num_channels : {1, 2}, pkts_per_chan : {1, 2},
     mode : {"Planar"}, fifo_capacity : {2}]
    \cup
    [vrt_hdr_bytes : {DefaultVrtHdrBytes}, tsf_offset : {DefaultTsfOffset},
     tsf_present : {TRUE}, num_channels : {2}, pkts_per_chan : {0},
     mode : {"Planar", "Interleaved"}, fifo_capacity : {1}]
    \cup
    [vrt_hdr_bytes : {8}, tsf_offset : {8},
     tsf_present : {TRUE}, num_channels : {1, 2}, pkts_per_chan : {1, 2},
     mode : {"Planar"}, fifo_capacity : {2}]

\* start_rx_worker has returned: the thread is at its loop head
DmxStart ==
    /\ cfg \in RxWorkerConfigs
    /\ inRing = << >>
    /\ run_flag = TRUE
    /\ worker = [ParkedWorker EXCEPT !.pc = "loop"]
    /\ fifos = [ch \in 1..cfg.num_channels |-> SpscQueue(cfg.fifo_capacity)]
    /\ counters = [handled |-> 0, drops |-> 0, dropped_on |-> {}]
    /\ dmxProduced = 0
    /\ dmxSeen = << >>
    /\ dmxAssigned = [ch \in 1..cfg.num_channels |-> << >>]
    /\ dmxPopped = [ch \in 1..cfg.num_channels |-> << >>]

\* no demux worker is configured
DmxAbsent ==
    /\ cfg = [vrt_hdr_bytes |-> DefaultVrtHdrBytes, tsf_offset |-> DefaultTsfOffset,
              tsf_present |-> TRUE, num_channels |-> 1, pkts_per_chan |-> 0,
              mode |-> "Planar", fifo_capacity |-> 1]
    /\ inRing = << >>
    /\ run_flag = FALSE
    /\ worker = ParkedWorker
    /\ fifos = << >>
    /\ counters = [handled |-> 0, drops |-> 0, dropped_on |-> {}]
    /\ dmxProduced = 0
    /\ dmxSeen = << >>
    /\ dmxAssigned = << >>
    /\ dmxPopped = << >>

\* no RX streamer is constructed
RxAbsent ==
    /\ opt = [ring_ok |-> FALSE, num_channels |-> 1, burst_size |-> 1,
              parse_tsf |-> FALSE, tsf_offset |-> DefaultTsfOffset,
              vrt_hdr_bytes |-> DefaultVrtHdrBytes]
    /\ rxRing = << >>
    /\ running = FALSE
    /\ recvCall = [NoCall EXCEPT !.pc = "none"]
    /\ md = FreshMetadata
    /\ chBuffs = << >>
    /\ recvRet = NoReturn
    /\ rxProduced = 0
    /\ rxTaken = << >>
    /\ rxDelivered = << >>

(***************************************************************************)
(* The TX streamer                          (flexsdr_tx_streamer.cpp)      *)
(***************************************************************************)
\* const std::size_t hdr_bytes in send
TxHdrBytes == 32
\* const uint32_t stream_id in send (0x2000)
TxStreamId == 8192
\* the burst the constructor uses when it is given 0
DefaultTxBurst == 32

\* write_vrt_minimal: the hdr_bytes header bytes it leaves at p
write_vrt_minimal(hdr_bytes, stream_id, tsf_ticks, payload_bytes) ==
    LET p0 == Zeros(hdr_bytes)
        words == (hdr_bytes + payload_bytes + 3) \div 4
        p1 == Overwrite(p0, 0, BE32(words))
        p2 == Overwrite(p1, 4, BE32(stream_id))
    IN IF hdr_bytes >= 32 THEN Overwrite(p2, 24, HtoBE64(tsf_ticks)) ELSE p2

\* static_cast<uint64_t>(time_spec.get_real_secs()): the fraction is cut off
TxTsfTicks(metadata) ==
    IF metadata.has_time_spec THEN U64(metadata.time_spec.full_secs) ELSE Zeros(8)

\* rte_ring_enqueue_burst of objs on ring: as many as there is room for
TxEnqueueCount(ring, objs) == Min(Len(objs), TxRingCap - Len(ring))

\* a flush that releases nothing: the mbufs the ring did not take are dropped
flush_without_release(ring, st) ==
    LET enq == Min(Len(st), TxRingCap - Len(ring))
    IN [ring |-> ring \o SubSeq(st, 1, enq), freed |-> << >>, enq |-> SubSeq(st, 1, enq)]

\* flush_ on the staged mbufs st: [ring, freed, enq]
flush_(ring, st) ==
    IF Len(st) = 0
    THEN [ring |-> ring, freed |-> << >>, enq |-> << >>]
    ELSE LET enq == TxEnqueueCount(ring, st)
         IN [ring |-> ring \o SubSeq(st, 1, enq),
             freed |-> SubSeq(st, enq + 1, Len(st)),
             enq |-> SubSeq(st, 1, enq)]

\* the samples a built packet carries
TxSampsOf(m) == (Len(m.data) - TxHdrBytes) \div 4

\* the history entries of a sequence of mbufs: id and samples carried
TxHistoryOf(mbufs) == [i \in 1..Len(mbufs) |-> [id |-> mbufs[i].id, nsamps |-> TxSampsOf(mbufs[i])]]

\* the result of a send call that built nothing
TxReject(nbuffs, nsamps, metadata, timeout) ==
    [nbuffs |-> nbuffs, nsamps |-> nsamps, metadata |-> metadata, ret |-> 0,
     built |-> << >>, flushed |-> FALSE, timeout |-> timeout, attempts |-> 0,
     paused |-> 0, released |-> << >>]

\* the timeout a caller passes, counted in pauses of an enqueue retry: the
\* caller is ready to wait for one
TxTimeouts == {1}

\* the metadata a caller passes
TxMetadatas ==
    [has_time_spec : {FALSE}, time_spec : {[full_secs |-> 0, tenths |-> 0]},
     end_of_burst : BOOLEAN]
    \cup
    [has_time_spec : {TRUE}, time_spec : {[full_secs |-> 7, tenths |-> 5]},
     end_of_burst : BOOLEAN]

\* the samples of the caller's buffer 0 in the call after `calls` calls
TxCallerBytes(calls, nsamps) == StoreValues(IqValues(10 * (calls + 1) + 1, nsamps, 1))

\* the bytes send appends to its mbuf: the header, then the caller's samples
TxPacketData(calls, nsamps_per_buff, metadata) ==
    write_vrt_minimal(TxHdrBytes, TxStreamId, TxTsfTicks(metadata), nsamps_per_buff * 4)
    \o TxCallerBytes(calls, nsamps_per_buff)

\* send(buffs, nsamps_per_buff, metadata, timeout), the flush_ it may end with
\* included.  The timeout parameter is unnamed and never read; flush_ calls
\* rte_ring_enqueue_burst once and does not pause, so a call that flushes makes
\* one enqueue attempt and spends no time waiting for the ring.
send(nbuffs, nsamps_per_buff, metadata, timeout) ==
    LET payload_bytes == nsamps_per_buff * 4
        need_bytes == TxHdrBytes + payload_bytes
        id == txAllocated + 1
        m == [id |-> id, data |-> TxPacketData(txCalls, nsamps_per_buff, metadata)]
        st == Append(staged, m)
        full == Len(st) = txs.burst_
        fl == IF full THEN flush_(txRing, st) ELSE [ring |-> txRing, freed |-> << >>, enq |-> << >>]
        rejected == \/ nbuffs = 0
                    \/ nsamps_per_buff = 0
                    \/ nbuffs # 1
                    \/ (~txs.allow_partial /\ nsamps_per_buff # txs.spp)
                    \/ txPoolFree = 0
    IN /\ txCalls' = txCalls + 1
       /\ IF rejected
          THEN /\ txRet' = TxReject(nbuffs, nsamps_per_buff, metadata, timeout)
               /\ UNCHANGED << staged, txRing, txPoolFree, txAllocated, txFreed,
                               txEnqueued, txAccepted >>
          ELSE IF txs.tailroom < need_bytes
          THEN \* the mbuf is allocated and released at once
               /\ txRet' = TxReject(nbuffs, nsamps_per_buff, metadata, timeout)
               /\ txAllocated' = id
               /\ txFreed' = Append(txFreed, [id |-> id, nsamps |-> 0])
               /\ UNCHANGED << staged, txRing, txPoolFree, txEnqueued, txAccepted >>
          ELSE /\ txAllocated' = id
               /\ staged' = IF full THEN << >> ELSE st
               /\ txRing' = fl.ring
               /\ txEnqueued' = txEnqueued \o TxHistoryOf(fl.enq)
               /\ txFreed' = txFreed \o TxHistoryOf(fl.freed)
               /\ txPoolFree' = txPoolFree - 1 + Len(fl.freed)
               /\ txAccepted' = txAccepted + nsamps_per_buff
               /\ txRet' = [nbuffs |-> nbuffs, nsamps |-> nsamps_per_buff,
                            metadata |-> metadata, ret |-> nsamps_per_buff,
                            built |-> << m >>, flushed |-> full,
                            timeout |-> timeout,
                            attempts |-> IF full THEN 1 ELSE 0, paused |-> 0,
                            released |-> TxHistoryOf(fl.freed)]
       /\ UNCHANGED txs
       /\ UNCHANGED notTx

TxSend ==
    /\ txs.alive
    /\ txCalls < MaxSends
    /\ \E nbuffs \in 0..2, nsamps \in 0..MaxTxSamps, metadata \in TxMetadatas,
          timeout \in TxTimeouts :
           send(nbuffs, nsamps, metadata, timeout)

\* ~flexsdr_tx_streamer
TxDestroy ==
    /\ txs.alive
    /\ LET fl == flush_(txRing, staged)
       IN /\ txRing' = fl.ring
          /\ txEnqueued' = txEnqueued \o TxHistoryOf(fl.enq)
          /\ txFreed' = txFreed \o TxHistoryOf(fl.freed)
          /\ txPoolFree' = txPoolFree + Len(fl.freed)
    /\ staged' = << >>
    /\ txs' = [txs EXCEPT !.alive = FALSE]
    /\ UNCHANGED << txAllocated, txCalls, txAccepted, txRet >>
    /\ UNCHANGED notTx

\* the consumer of the TX ring takes the oldest packet and releases it
TxDrain ==
    /\ txs.spp # 0
    /\ txRing # << >>
    /\ txRing' = Tail(txRing)
    /\ txPoolFree' = txPoolFree + 1
    /\ UNCHANGED << txs, staged, txAllocated, txFreed, txEnqueued, txCalls,
                    txAccepted, txRet >>
    /\ UNCHANGED notTx

\* the streamers constructed: spp, burst (0 selects the default), whether a
\* short send is allowed, and the room of a fresh mbuf: for the header and 8
\* samples, or for the header and 2 samples only
TxStreamers ==
    [spp : {1, 2}, burst_ : {1, 2}, allow_partial : BOOLEAN,
     tailroom : {TxHdrBytes + 32}, alive : {TRUE}]
    \cup
    [spp : {2}, burst_ : {DefaultTxBurst}, allow_partial : {TRUE},
     tailroom : {TxHdrBytes + 8}, alive : {TRUE}]

NoTxRet ==
    [nbuffs |-> 0, nsamps |-> 0,
     metadata |-> [has_time_spec |-> FALSE, time_spec |-> [full_secs |-> 0, tenths |-> 0],
                   end_of_burst |-> FALSE],
     ret |-> 0, built |-> << >>, flushed |-> FALSE, timeout |-> 0, attempts |-> 0,
     paused |-> 0, released |-> << >>]

\* the constructor has returned
TxStart ==
    /\ txs \in TxStreamers
    /\ staged = << >>
    /\ txRing = << >>
    /\ txPoolFree \in 1..TxPoolSize
    /\ txAllocated = 0
    /\ txFreed = << >>
    /\ txEnqueued = << >>
    /\ txCalls = 0
    /\ txAccepted = 0
    /\ txRet = NoTxRet

\* no TX streamer is constructed
TxAbsent ==
    /\ txs = [spp |-> 0, burst_ |-> DefaultTxBurst, allow_partial |-> TRUE,
              tailroom |-> 0, alive |-> FALSE]
    /\ staged = << >>
    /\ txRing = << >>
    /\ txPoolFree = 0
    /\ txAllocated = 0
    /\ txFreed = << >>
    /\ txEnqueued = << >>
    /\ txCalls = 0
    /\ txAccepted = 0
    /\ txRet = NoTxRet

(***************************************************************************)
(* The header encoders and decoders, applied once to an input              *)
(*   (tx_worker.cpp, flexsdr_tx_streamer.cpp, rx_worker.cpp,               *)
(*    rx_worker.hpp, test_dpdk_primary_only.cpp)                           *)
(***************************************************************************)
\* the packet the TX worker builds for item under cfg in a fresh mbuf whose
\* bytes all hold g: nothing zeroes the header, and write_vrt is called without
\* its tsf_offset argument, so the default (24) applies whatever cfg.tsf_offset
\* is.  << >> when the mbuf has no room (the item is skipped).
TxWorkerPacket(wcfg, item, g) ==
    LET payload == StoreValues(IqValues(item.first, item.nsamps, 1))
        payload_bytes == item.nsamps * 4
        need_bytes == wcfg.vrt_hdr_bytes + payload_bytes
        hdr0 == [i \in 1..wcfg.vrt_hdr_bytes |-> g]
    IN IF wcfg.tailroom < need_bytes THEN << >>
       ELSE WriteVrt(hdr0, wcfg.vrt_hdr_bytes, item.stream_id, item.tsf_ticks,
                     payload_bytes, DefaultTsfOffset) \o payload

\* parse_vrt_sc16_packet on a record out0 of the caller: [ok, p]
parse_vrt_sc16_packet(m, hdr_bytes, tsf_offset, tsf_present, out0) ==
    LET pkt_bytes == Len(m.data)
        sid == IF pkt_bytes >= 8 THEN load_u32_be(m.data, 4) ELSE 0
        have == tsf_present /\ tsf_offset + 8 <= pkt_bytes
        ticks == IF have THEN SubSeq(m.data, tsf_offset + 1, tsf_offset + 8) ELSE Zeros(8)
        out1 == [out0 EXCEPT !.stream_id = sid, !.have_tsf = have, !.tsf_ticks = ticks]
        payload_bytes == pkt_bytes - hdr_bytes
    IN IF pkt_bytes < hdr_bytes THEN [ok |-> FALSE, p |-> out0]
       ELSE IF payload_bytes % 4 # 0 THEN [ok |-> FALSE, p |-> out1]
       ELSE [ok |-> TRUE,
             p |-> [out1 EXCEPT !.nsamps = payload_bytes \div 4,
                                !.iq = SubSeq(m.data, hdr_bytes + 1, pkt_bytes),
                                !.eob = TRUE, !.src = m.id]]

\* the fields of if_packet_info_t the model keeps, as a default-constructed one
DefaultPacketInfo ==
    [sid |-> 0, has_tsf |-> FALSE, tsf |-> Zeros(8), num_payload_bytes |-> 0,
     num_packet_words32 |-> 0]

\* fill_if_packet_info_from_mbuf: [ok, info]
fill_if_packet_info_from_mbuf(m, hdr_bytes, tsf_offset) ==
    LET pkt_bytes == Len(m.data)
        has_tsf == tsf_offset + 8 <= pkt_bytes
    IN IF pkt_bytes < hdr_bytes \/ pkt_bytes < 8
       THEN [ok |-> FALSE, info |-> DefaultPacketInfo]
       ELSE [ok |-> TRUE,
             info |-> [sid |-> load_u32_be(m.data, 4),
                       has_tsf |-> has_tsf,
                       tsf |-> IF has_tsf
                               THEN SubSeq(m.data, tsf_offset + 1, tsf_offset + 8)
                               ELSE Zeros(8),
                       num_payload_bytes |-> IF pkt_bytes > hdr_bytes
                                             THEN pkt_bytes - hdr_bytes ELSE 0,
                       num_packet_words32 |-> load_u32_be(m.data, 0)]]

\* the layouts both sides are configured with, and the room of the TX pool's
\* mbufs
CodecConfigs ==
    [vrt_hdr_bytes : {10, 16, 32}, tsf_offset : {8, 24}, tsf_present : BOOLEAN,
     tailroom : {40, 64}]

\* the items handed to the TX worker
TxItems ==
    [stream_id : {7936}, tsf_ticks : {U64(17), << 1, 2, 3, 4, 5, 6, 7, 8 >>},
     first : {11}, nsamps : 0..MaxSamps]

NoItem == [stream_id |-> 0, tsf_ticks |-> Zeros(8), first |-> 0, nsamps |-> 0]

\* nothing was applied yet
NoCodec ==
    [op |-> "none",
     cfg |-> [vrt_hdr_bytes |-> DefaultVrtHdrBytes, tsf_offset |-> DefaultTsfOffset,
              tsf_present |-> TRUE, tailroom |-> 0],
     item |-> NoItem, pkt |-> << >>,
     worker |-> [ok |-> FALSE, p |-> DefaultRxPacket],
     inl |-> [ok |-> FALSE, p |-> DefaultRxPacket],
     info |-> [ok |-> FALSE, info |-> DefaultPacketInfo]]

\* the three decoders applied to the packet data under wcfg
Decoded(op, wcfg, item, data) ==
    LET m == [id |-> 1, data |-> data]
    IN [op |-> op, cfg |-> wcfg, item |-> item, pkt |-> data,
        worker |-> parse_vrt(m, wcfg.vrt_hdr_bytes, wcfg.tsf_offset, wcfg.tsf_present),
        inl |-> parse_vrt_sc16_packet(m, wcfg.vrt_hdr_bytes, wcfg.tsf_offset,
                                      wcfg.tsf_present, DefaultRxPacket),
        info |-> fill_if_packet_info_from_mbuf(m, wcfg.vrt_hdr_bytes, wcfg.tsf_offset)]

\* the TX worker builds a packet; the receiving side, configured identically,
\* decodes it
TxWorkerEncode ==
    /\ codec.op = "none"
    /\ \E wcfg \in CodecConfigs, item \in TxItems, g \in GarbageValues :
           LET data == TxWorkerPacket(wcfg, item, g)
           IN /\ data # << >>
              /\ codec' = Decoded("tx_worker", wcfg, item, data)
    /\ UNCHANGED notCodec

\* the TX streamer builds a packet; a receiver with the default layout decodes it
TxStreamerEncode ==
    /\ codec.op = "none"
    /\ \E nsamps \in 1..MaxSamps, metadata \in TxMetadatas :
           codec' = Decoded("tx_streamer",
                            [NoCodec.cfg EXCEPT !.tailroom = 64],
                            [stream_id |-> TxStreamId, tsf_ticks |-> TxTsfTicks(metadata),
                             first |-> 11, nsamps |-> nsamps],
                            TxPacketData(0, nsamps, metadata))
    /\ UNCHANGED notCodec

\* a packet of any length arrives: a well-formed packet cut to len bytes
DecodeAny ==
    /\ codec.op = "none"
    /\ \E wcfg \in CodecConfigs, len \in 0..(DefaultVrtHdrBytes + 4 * MaxSamps) :
           LET whole == EncodedPacket(DefaultVrtHdrBytes, DefaultTsfOffset, 7936, 17, 11,
                                      MaxSamps, 1)
           IN codec' = Decoded("decode", wcfg, NoItem, SubSeq(whole, 1, len))
    /\ UNCHANGED notCodec

CodecStart == codec = NoCodec

\* no encoder or decoder is under study
CodecAbsent == codec = [NoCodec EXCEPT !.op = "absent"]

(***************************************************************************)
(* FlexSDRSecondary::send_burst             (flexsdr_secondary.cpp)        *)
(***************************************************************************)
\* a send_burst that keeps the mbuf the ring refused
sec_releases_unless_ring_full(path) == path # "ring_full"

\* whether send_burst calls rte_pktmbuf_free on the failure path named
sec_releases(path) == path \in {"tailroom", "null_src", "ring_full"}

\* the caller's data for a burst of nsamps samples: the raw IQ payload
SecCallerBytes(nsamps) == StoreValues(IqValues(11, nsamps, 1))

\* the record of a call: arguments, the id of the mbuf it allocated (0: none),
\* the path it took, the result
SecCall(chan, has_data, nsamps, tsf, id, path) ==
    [chan |-> chan, has_data |-> has_data, nsamps |-> nsamps, tsf |-> tsf,
     id |-> id, path |-> path, ret |-> path = "enqueued"]

\* send_burst(chan, data, bytes, tsf, spp, fmt, sob, eob) with bytes = 4 * nsamps;
\* tsf, spp, fmt, sob and eob are not used.  The checks of buf_addr, buf_len and
\* of the data pointer's bounds cannot fail for an mbuf that passed the
\* tailroom check.
send_burst(chan, has_data, nsamps, tsf) ==
    LET bytes == 4 * nsamps
        id == secHist.allocated + 1
        m == [id |-> id, data |-> SecCallerBytes(nsamps), nsamps |-> nsamps, tsf |-> tsf]
        path == IF chan >= sec.nrings \/ chan >= sec.npools THEN "bad_chan"
                ELSE IF secPoolFree[chan] = 0 THEN "no_mbuf"
                ELSE IF sec.tailroom < bytes THEN "tailroom"
                ELSE IF ~has_data THEN "null_src"
                ELSE IF Len(secRings[chan]) >= SecRingCap THEN "ring_full"
                ELSE "enqueued"
        allocated == path \notin {"bad_chan", "no_mbuf"}
    IN /\ secRet' = SecCall(chan, has_data, nsamps, tsf, IF allocated THEN id ELSE 0, path)
       /\ secRings' = IF path = "enqueued"
                      THEN [secRings EXCEPT ![chan] = Append(@, m)]
                      ELSE secRings
       /\ secPoolFree' = IF path = "enqueued" \/ (allocated /\ ~sec_releases(path))
                         THEN [secPoolFree EXCEPT ![chan] = @ - 1]
                         ELSE secPoolFree
       /\ secHist' = [allocated |-> IF allocated THEN id ELSE secHist.allocated,
                      calls |-> secHist.calls + 1,
                      freed |-> IF allocated /\ path # "enqueued" /\ sec_releases(path)
                                THEN Append(secHist.freed, id) ELSE secHist.freed,
                      enqueued |-> IF path = "enqueued"
                                   THEN Append(secHist.enqueued, id) ELSE secHist.enqueued]
       /\ UNCHANGED sec

SecSendBurst ==
    /\ sec.nrings # 0
    /\ secHist.calls < MaxSecCalls
    /\ \E chan \in 0..2, has_data \in BOOLEAN, nsamps \in 1..MaxSamps :
           send_burst(chan, has_data, nsamps, U64(17))
    /\ UNCHANGED notSec

\* the consumer of a TX ring takes the oldest packet and releases it
SecDrain ==
    /\ sec.nrings # 0
    /\ \E chan \in 0..(sec.nrings - 1) :
           /\ secRings[chan] # << >>
           /\ secRings' = [secRings EXCEPT ![chan] = Tail(@)]
           /\ secPoolFree' = IF chan < sec.npools
                             THEN [secPoolFree EXCEPT ![chan] = @ + 1]
                             ELSE secPoolFree
    /\ UNCHANGED << sec, secHist, secRet >>
    /\ UNCHANGED notSec

NoSecCall == SecCall(0, FALSE, 0, Zeros(8), 0, "none")

\* init_resources has succeeded: one or two TX rings, one or two pools, whose
\* mbufs have room for one sample or for eight
SecStart ==
    /\ sec \in [nrings : {1, 2}, npools : {1, 2}, tailroom : {4, 32}]
    /\ secRings = [chan \in 0..(sec.nrings - 1) |-> << >>]
    /\ secPoolFree \in [0..(sec.npools - 1) -> {1, SecPoolSize}]
    /\ secHist = [allocated |-> 0, calls |-> 0, freed |-> << >>, enqueued |-> << >>]
    /\ secRet = NoSecCall

\* no secondary is attached
SecAbsent ==
    /\ sec = [nrings |-> 0, npools |-> 0, tailroom |-> 0]
    /\ secRings = << >>
    /\ secPoolFree = << >>
    /\ secHist = [allocated |-> 0, calls |-> 0, freed |-> << >>, enqueued |-> << >>]
    /\ secRet = NoSecCall

(***************************************************************************)
(* FlexSDRPrimary::init_resources (flexsdr_primary.cpp) and                *)
(* create_one_ring (config_parms.cpp) on the named rings and pools of the  *)
(* shared DPDK memory                                                      *)
(***************************************************************************)
\* the processes that create rings, the names they use
PriProcs == {"pg", "pu"}
RingNames == {"tx0", "tx1", "rx0", "pg_to_pu", "pu_to_pg", "pg_to_pu_to_pg", "ic_a", "ic_b"}
PoolNames == {"pool0", "pool1"}
NoRing == "NULL"
NoPool == "NULL"

RingSpec(name, size) == [name |-> name, size |-> size]

\* std::string::find of the two direction tags, on the names above
FindsPgToPu(name) == name \in {"pg_to_pu", "pg_to_pu_to_pg"}
FindsPuToPg(name) == name \in {"pu_to_pg", "pg_to_pu_to_pg"}

IsPow2(n) == n \in {2^k : k \in 0..30}

\* rte_ring_create: the count must be a power of two, the name must be free,
\* and the memzone must be available (mem_ok)
rte_ring_create(rings, name, count, mem_ok) ==
    IF ~IsPow2(count) THEN [ring |-> NoRing, rte_errno |-> "EINVAL"]
    ELSE IF rings[name] # 0 THEN [ring |-> NoRing, rte_errno |-> "EEXIST"]
    ELSE IF ~mem_ok THEN [ring |-> NoRing, rte_errno |-> "ENOMEM"]
    ELSE [ring |-> name, rte_errno |-> "none"]

rte_ring_lookup(rings, name) ==
    IF rings[name] # 0 THEN [ring |-> name, rte_errno |-> "none"]
    ELSE [ring |-> NoRing, rte_errno |-> "ENOENT"]

rte_pktmbuf_pool_create(pools, name, mem_ok) ==
    IF name \in pools THEN [mp |-> NoPool, rte_errno |-> "EEXIST"]
    ELSE IF ~mem_ok THEN [mp |-> NoPool, rte_errno |-> "ENOMEM"]
    ELSE [mp |-> name, rte_errno |-> "none"]

\* FlexSDRPrimary::create_ring_: made says whether a ring object was created
create_ring_(rings, name, size, mem_ok) ==
    LET r == rte_ring_create(rings, name, size, mem_ok)
        found == rte_ring_lookup(rings, name)
    IN  IF r.ring # NoRing
        THEN [rc |-> 0, out |-> r.ring, made |-> TRUE, rte_errno |-> "none"]
        ELSE IF r.rte_errno = "EEXIST" /\ found.ring # NoRing
        THEN [rc |-> 0, out |-> found.ring, made |-> FALSE, rte_errno |-> "EEXIST"]
        ELSE [rc |-> 0 - 1, out |-> NoRing, made |-> FALSE, rte_errno |-> r.rte_errno]

\* FlexSDRPrimary::lookup_ring_
lookup_ring_(rings, name) ==
    LET r == rte_ring_lookup(rings, name)
    IN  IF r.ring = NoRing
        THEN [rc |-> 0 - 1, out |-> NoRing, made |-> FALSE, rte_errno |-> r.rte_errno]
        ELSE [rc |-> 0, out |-> r.ring, made |-> FALSE, rte_errno |-> "none"]

\* the library calls of init_resources, in the order it makes them: pools,
\* TX rings, RX rings, then the interconnect rings (created by the gNB side,
\* looked up by the UE side)
Items(kind, specs) == [i \in 1..Len(specs) |-> [kind |-> kind, spec |-> specs[i]]]

\* a role block of the loaded configuration: its pools, the rings of its
\* tx_stream and rx_stream, its interconnect rings
RoleBlock(pools, tx, rx, ic) ==
    [present |-> TRUE, pools |-> pools, tx |-> tx, rx |-> rx, ic |-> ic]

NoRoleBlock ==
    [present |-> FALSE, pools |-> << >>, tx |-> << >>, rx |-> << >>, ic |-> << >>]

\* the lists the primary works on: the primary-ue block first, then the
\* primary-gnb block, then (for rings) the defaults
collect_tx_rings_(c) ==
    IF c.primary_ue.present /\ c.primary_ue.tx # << >> THEN c.primary_ue.tx
    ELSE IF c.primary_gnb.present /\ c.primary_gnb.tx # << >> THEN c.primary_gnb.tx
    ELSE c.defaults.tx

collect_rx_rings_(c) ==
    IF c.primary_ue.present /\ c.primary_ue.rx # << >> THEN c.primary_ue.rx
    ELSE IF c.primary_gnb.present /\ c.primary_gnb.rx # << >> THEN c.primary_gnb.rx
    ELSE c.defaults.rx

collect_pools_(c) ==
    IF c.primary_ue.present /\ c.primary_ue.pools # << >> THEN c.primary_ue.pools
    ELSE IF c.primary_gnb.present /\ c.primary_gnb.pools # << >> THEN c.primary_gnb.pools
    ELSE << >>

PriPlan(c) ==
    Items("pool", collect_pools_(c)) \o Items("tx", collect_tx_rings_(c))
    \o Items("rx", collect_rx_rings_(c))
    \o (IF c.role \in {"primary-gnb", "gnb"} THEN Items("ic_create", c.primary_gnb.ic)
        ELSE IF c.role \in {"primary-ue", "ue"} THEN Items("ic_lookup", c.primary_ue.ic)
        ELSE << >>)

\* the size create_rings_tx_ and create_rings_rx_ ask for
RequestedSize(c, spec) == IF spec.size # 0 THEN spec.size ELSE c.ring_size

LoadedConfig(role, defaults_tx, defaults_rx, primary_ue, primary_gnb) ==
    [role |-> role, ring_size |-> 512,
     defaults |-> [tx |-> defaults_tx, rx |-> defaults_rx],
     primary_ue |-> primary_ue, primary_gnb |-> primary_gnb]

\* the configurations load_from_yaml delivers: rings under the defaults only,
\* TX rings under the role block that differ from the defaults, a ring size
\* that is no power of two, a role block with pools only
PriConfigs ==
    { LoadedConfig("primary-gnb", << RingSpec("tx0", 0) >>, << RingSpec("rx0", 256) >>,
                   NoRoleBlock,
                   RoleBlock(<< RingSpec("pool0", 0) >>, << >>, << >>,
                             << RingSpec("pg_to_pu", 0) >>)),
      LoadedConfig("primary-ue", << RingSpec("tx1", 0) >>, << RingSpec("rx0", 256) >>,
                   RoleBlock(<< RingSpec("pool1", 0) >>, << RingSpec("tx0", 256) >>,
                             << >>, << RingSpec("pg_to_pu", 0) >>),
                   NoRoleBlock),
      LoadedConfig("primary-ue", << RingSpec("tx0", 300) >>, << >>,
                   NoRoleBlock, NoRoleBlock),
      LoadedConfig("primary-gnb", << >>, << RingSpec("rx0", 0) >>,
                   NoRoleBlock,
                   RoleBlock(<< RingSpec("pool0", 0) >>, << >>, << >>, << >>)) }

NoPriConfig ==
    [role |-> "none", ring_size |-> 0, defaults |-> [tx |-> << >>, rx |-> << >>],
     primary_ue |-> NoRoleBlock, primary_gnb |-> NoRoleBlock]

\* one ring creation request and its outcome
RingRequest(op, name, size, allow_existing, ok, out, rte_errno) ==
    [op |-> op, name |-> name, size |-> size, allow_existing |-> allow_existing,
     ok |-> ok, out |-> out, rte_errno |-> rte_errno]

NoRingRequest == RingRequest("none", "", 0, FALSE, FALSE, NoRing, "none")

\* one pool creation request of create_pools_ and its outcome
PoolRequest(name, ok, rte_errno) == [name |-> name, ok |-> ok, rte_errno |-> rte_errno]

NoPoolRequest == PoolRequest("", FALSE, "none")

\* made is history: the library calls of the init_resources call in progress
PriProcess ==
    [pc |-> "idle", cfg |-> NoPriConfig, step |-> 0, ops |-> 0,
     pools_ |-> << >>, tx_rings_ |-> << >>, rx_rings_ |-> << >>,
     ic_tx_rings_ |-> << >>, ic_rx_rings_ |-> << >>,
     returned |-> "none", rc |-> 0, last |-> NoRingRequest, pool |-> NoPoolRequest,
     made |-> << >>]

\* calls made so far by all processes
RECURSIVE SumOps(_)
SumOps(ps) ==
    IF ps = {} THEN 0
    ELSE LET p == CHOOSE q \in ps : TRUE IN pri[p].ops + SumOps(ps \ {p})

PriCalls == SumOps(PriProcs) + secm.calls

\* process p enters init_resources with the loaded configuration c
init_resources(p, c) ==
    /\ pri[p].pc = "idle"
    /\ PriCalls < MaxPriOps
    /\ pri' = [pri EXCEPT ![p] =
           [@ EXCEPT !.ops = @ + 1, !.cfg = c, !.step = 1, !.made = << >>,
                     !.pc = IF PriPlan(c) = << >> THEN "idle" ELSE "init",
                     !.returned = IF PriPlan(c) = << >>
                                  THEN "init_resources" ELSE "none",
                     !.rc = 0]]
    /\ UNCHANGED << rteRings, rtePools, rteCreated >>
    /\ UNCHANGED << secm, notPri >>

\* init_resources is called with a loaded configuration
InitResourcesCall == \E p \in PriProcs, c \in PriConfigs : init_resources(p, c)

\* the interconnect lists a YAML file can hold: up to MaxIcRings rings, named
\* with the tag of either direction, with both, or with neither
IcNames == {"pg_to_pu", "pu_to_pg", "pg_to_pu_to_pg", "ic_a", "ic_b"}

IcLists ==
    UNION { [1..n -> {RingSpec(name, 0) : name \in IcNames}] : n \in 1..MaxIcRings }

\* the configuration of the gNB-side primary and of the UE-side primary that
\* hold the interconnect list ic and nothing else
IcConfig(p, ic) ==
    IF p = "pg"
    THEN LoadedConfig("primary-gnb", << >>, << >>, NoRoleBlock,
                      RoleBlock(<< >>, << >>, << >>, ic))
    ELSE LoadedConfig("primary-ue", << >>, << >>,
                      RoleBlock(<< >>, << >>, << >>, ic), NoRoleBlock)

\* the interconnect list process p was configured with
IcListOf(p) == IF p = "pg" THEN pri[p].cfg.primary_gnb.ic ELSE pri[p].cfg.primary_ue.ic

\* a freshly constructed primary of either side calls init_resources; the two
\* sides read one list
IcInitResourcesCall ==
    \E p \in PriProcs, ic \in IcLists :
        /\ pri[p].ops = 0
        /\ \A q \in PriProcs \ {p} : pri[q].ops > 0 => IcListOf(q) = ic
        /\ init_resources(p, IcConfig(p, ic))

\* where init_resources stands after one of its library calls returned rc
PriAdvancePastFailure(me, rc) ==
    IF me.step = Len(PriPlan(me.cfg))
    THEN [me EXCEPT !.pc = "idle", !.returned = "init_resources", !.rc = rc]
    ELSE [me EXCEPT !.step = @ + 1]

PriAdvance(me, rc) ==
    IF rc # 0
    THEN [me EXCEPT !.pc = "idle", !.returned = "init_resources", !.rc = rc]
    ELSE IF me.step = Len(PriPlan(me.cfg))
    THEN [me EXCEPT !.pc = "idle", !.returned = "init_resources", !.rc = 0]
    ELSE [me EXCEPT !.step = @ + 1]

\* a classification whose fallback is the same on both sides: first half TX
ClassifyInterconnectSameHalves(me, name, out, tx_first) ==
    LET n_ic == Len(IF tx_first THEN me.cfg.primary_gnb.ic ELSE me.cfg.primary_ue.ic)
        seen == Len(me.ic_tx_rings_) + Len(me.ic_rx_rings_)
        to_tx == IF FindsPgToPu(name) THEN tx_first
                 ELSE IF FindsPuToPg(name) THEN ~tx_first
                 ELSE seen < n_ic \div 2
    IN  IF to_tx THEN [me EXCEPT !.ic_tx_rings_ = Append(@, out)]
        ELSE [me EXCEPT !.ic_rx_rings_ = Append(@, out)]

\* create_interconnect_ and lookup_interconnect_ sort a ring handle into
\* ic_tx_rings_ or ic_rx_rings_; tx_first is true on the side where pg_to_pu
\* means TX, the gNB side
ClassifyInterconnect(me, name, out, tx_first) ==
    LET n_ic == Len(IF tx_first THEN me.cfg.primary_gnb.ic ELSE me.cfg.primary_ue.ic)
        seen == Len(me.ic_tx_rings_) + Len(me.ic_rx_rings_)
        to_tx == IF FindsPgToPu(name) THEN tx_first
                 ELSE IF FindsPuToPg(name) THEN ~tx_first
                 ELSE IF seen < n_ic \div 2 THEN tx_first ELSE ~tx_first
    IN  IF to_tx THEN [me EXCEPT !.ic_tx_rings_ = Append(@, out)]
        ELSE [me EXCEPT !.ic_rx_rings_ = Append(@, out)]

\* init_resources makes its next library call
InitResourcesStep ==
    /\ \E p \in PriProcs, mem_ok \in BOOLEAN :
        LET me == pri[p]
            item == PriPlan(me.cfg)[me.step]
            name == item.spec.name
            size == RequestedSize(me.cfg, item.spec)
            mp == rte_pktmbuf_pool_create(rtePools, name, mem_ok)
            c == IF item.kind = "ic_lookup" THEN lookup_ring_(rteRings, name)
                 ELSE create_ring_(rteRings, name, size, mem_ok)
            asked == [me EXCEPT !.last =
                         RingRequest(IF item.kind = "ic_lookup" THEN "lookup_ring_"
                                     ELSE "create_ring_",
                                     name, size, TRUE, c.rc = 0, c.out, c.rte_errno),
                                !.made = Append(@, [kind |-> item.kind, rc |-> c.rc])]
            pooled == [me EXCEPT !.pool = PoolRequest(name, mp.mp # NoPool, mp.rte_errno),
                                 !.made = Append(@, [kind |-> "pool",
                                                     rc |-> IF mp.mp = NoPool THEN 0 - 1
                                                            ELSE 0])]
            kept == IF c.rc # 0 THEN asked
                    ELSE IF item.kind = "tx"
                    THEN [asked EXCEPT !.tx_rings_ = Append(@, c.out)]
                    ELSE IF item.kind = "rx"
                    THEN [asked EXCEPT !.rx_rings_ = Append(@, c.out)]
                    ELSE ClassifyInterconnect(asked, name, c.out, item.kind = "ic_create")
        IN  /\ me.pc = "init"
            /\ IF item.kind = "pool"
               THEN /\ rtePools' = IF mp.mp # NoPool THEN rtePools \cup {name}
                                   ELSE rtePools
                    /\ pri' = [pri EXCEPT ![p] =
                           IF mp.mp = NoPool THEN PriAdvance(pooled, 0 - 1)
                           ELSE PriAdvance([pooled EXCEPT !.pools_ = Append(@, mp.mp)], 0)]
                    /\ UNCHANGED << rteRings, rteCreated >>
               ELSE /\ rteRings' = IF c.made THEN [rteRings EXCEPT ![name] = size]
                                   ELSE rteRings
                    /\ rteCreated' = IF c.made THEN [rteCreated EXCEPT ![name] = @ + 1]
                                     ELSE rteCreated
                    /\ pri' = [pri EXCEPT ![p] = PriAdvance(kept, c.rc)]
                    /\ UNCHANGED rtePools
    /\ UNCHANGED << secm, notPri >>

\* the names and sizes create_one_ring is called with
OneRingNames == {"tx0"}
OneRingSizes == {256}

\* create_one_ring up to its call of rte_ring_create: with allow_existing it
\* returns true when rte_ring_lookup finds the name
CreateOneRingLookup ==
    /\ \E p \in PriProcs, name \in OneRingNames, size \in OneRingSizes,
          allow_existing \in BOOLEAN :
        LET found == rte_ring_lookup(rteRings, name)
            reused == allow_existing /\ found.ring # NoRing
        IN  /\ pri[p].pc = "idle"
            /\ PriCalls < MaxPriOps
            /\ pri' = [pri EXCEPT ![p] =
                   [@ EXCEPT !.ops = @ + 1, !.made = << >>,
                             !.pc = IF reused THEN "idle" ELSE "one_create",
                             !.returned = IF reused THEN "create_one_ring" ELSE "none",
                             !.last = RingRequest("create_one_ring", name, size,
                                                  allow_existing, reused,
                                                  found.ring, "none")]]
    /\ UNCHANGED << rteRings, rtePools, rteCreated >>
    /\ UNCHANGED << secm, notPri >>

\* create_one_ring from its call of rte_ring_create to its return
CreateOneRingCreate ==
    /\ \E p \in PriProcs, mem_ok \in BOOLEAN :
        LET l == pri[p].last
            r == rte_ring_create(rteRings, l.name, l.size, mem_ok)
        IN  /\ pri[p].pc = "one_create"
            /\ rteRings' = IF r.ring # NoRing THEN [rteRings EXCEPT ![l.name] = l.size]
                           ELSE rteRings
            /\ rteCreated' = IF r.ring # NoRing
                             THEN [rteCreated EXCEPT ![l.name] = @ + 1]
                             ELSE rteCreated
            /\ pri' = [pri EXCEPT ![p] =
                   [@ EXCEPT !.pc = "idle", !.returned = "create_one_ring",
                             !.last = [l EXCEPT !.ok = r.ring # NoRing,
                                                !.out = r.ring,
                                                !.rte_errno = r.rte_errno]]]
    /\ UNCHANGED rtePools
    /\ UNCHANGED << secm, notPri >>

\* rte_mempool_lookup
rte_mempool_lookup(pools, name) ==
    IF name \in pools THEN [mp |-> name, rte_errno |-> "none"]
    ELSE [mp |-> NoPool, rte_errno |-> "ENOENT"]

\* the lists the secondary works on: the rings of the defaults, the pools of
\* the primary-ue block first, then of the primary-gnb block
sec_collect_tx_rings_(c) == c.defaults.tx

sec_collect_rx_rings_(c) == c.defaults.rx

sec_collect_pools_(c) ==
    IF c.primary_ue.present /\ c.primary_ue.pools # << >> THEN c.primary_ue.pools
    ELSE IF c.primary_gnb.present /\ c.primary_gnb.pools # << >> THEN c.primary_gnb.pools
    ELSE << >>

\* the lookups of FlexSDRSecondary::init_resources, in the order it makes them
SecPlan(c) ==
    Items("pool", sec_collect_pools_(c)) \o Items("tx", sec_collect_tx_rings_(c))
    \o Items("rx", sec_collect_rx_rings_(c))

\* FlexSDRSecondary::lookup_ring_
sec_lookup_ring_(rings, name) ==
    LET r == rte_ring_lookup(rings, name)
    IN  IF r.ring = NoRing THEN [rc |-> 0 - 2, out |-> NoRing]
        ELSE [rc |-> 0, out |-> r.ring]

\* one pool of lookup_pools_
sec_lookup_pool_(pools, name) ==
    LET mp == rte_mempool_lookup(pools, name)
    IN  IF mp.mp = NoPool THEN [rc |-> 0 - 2, out |-> NoPool]
        ELSE [rc |-> 0, out |-> mp.mp]

SecHandles(me) ==
    [pools_ |-> me.pools_, tx_rings_ |-> me.tx_rings_, rx_rings_ |-> me.rx_rings_]

\* a constructed FlexSDRSecondary; lookups, before, rebuilt and after_primary
\* are history: the lookups of the call in progress, the handles when it
\* began, whether the call before it returned 0, whether a primary had
\* returned 0 from init_resources on the same configuration when it began
SecManager ==
    [pc |-> "idle", cfg |-> NoPriConfig, step |-> 0, calls |-> 0,
     pools_ |-> << >>, tx_rings_ |-> << >>, rx_rings_ |-> << >>,
     returned |-> FALSE, rc |-> 0, lookups |-> << >>,
     before |-> [pools_ |-> << >>, tx_rings_ |-> << >>, rx_rings_ |-> << >>],
     rebuilt |-> FALSE, after_primary |-> FALSE]

PrimaryReady(c) ==
    \E p \in PriProcs :
        pri[p].returned = "init_resources" /\ pri[p].rc = 0 /\ pri[p].cfg = c

\* the secondary's init_resources is called; the configuration is the one
\* the object was constructed with
SecInitResourcesCall ==
    /\ secm.pc = "idle"
    /\ PriCalls < MaxPriOps
    /\ \E c \in IF secm.calls = 0 THEN PriConfigs ELSE {secm.cfg} :
           secm' = [secm EXCEPT !.calls = @ + 1, !.cfg = c, !.step = 1,
                                !.lookups = << >>,
                                !.before = SecHandles(secm),
                                !.rebuilt = secm.returned /\ secm.rc = 0,
                                !.after_primary = PrimaryReady(c),
                                !.pc = IF SecPlan(c) = << >> THEN "idle" ELSE "init",
                                !.returned = SecPlan(c) = << >>,
                                !.rc = 0]
    /\ UNCHANGED << rteRings, rtePools, rteCreated, pri >>
    /\ UNCHANGED notPri

\* where the secondary's init_resources stands after a lookup returned rc
SecAdvancePastMiss(me, rc) ==
    IF me.step = Len(SecPlan(me.cfg))
    THEN [me EXCEPT !.pc = "idle", !.returned = TRUE, !.rc = rc]
    ELSE [me EXCEPT !.step = @ + 1]

SecAdvance(me, rc) ==
    IF rc # 0
    THEN [me EXCEPT !.pc = "idle", !.returned = TRUE, !.rc = rc]
    ELSE IF me.step = Len(SecPlan(me.cfg))
    THEN [me EXCEPT !.pc = "idle", !.returned = TRUE, !.rc = 0]
    ELSE [me EXCEPT !.step = @ + 1]

\* the secondary's init_resources makes its next lookup
SecInitResourcesStep ==
    /\ secm.pc = "init"
    /\ LET item == SecPlan(secm.cfg)[secm.step]
           name == item.spec.name
           r == IF item.kind = "pool" THEN sec_lookup_pool_(rtePools, name)
                ELSE sec_lookup_ring_(rteRings, name)
           looked == [secm EXCEPT !.lookups =
                         Append(@, [kind |-> item.kind, name |-> name,
                                    found |-> r.rc = 0])]
           kept == IF r.rc # 0 THEN looked
                   ELSE IF item.kind = "pool"
                   THEN [looked EXCEPT !.pools_ = Append(@, r.out)]
                   ELSE IF item.kind = "tx"
                   THEN [looked EXCEPT !.tx_rings_ = Append(@, r.out)]
                   ELSE [looked EXCEPT !.rx_rings_ = Append(@, r.out)]
       IN  secm' = SecAdvance(kept, r.rc)
    /\ UNCHANGED << rteRings, rtePools, rteCreated, pri >>
    /\ UNCHANGED notPri

\* the DPDK memory holds no ring and no pool, no process has made a call
PriStart ==
    /\ rteRings = [name \in RingNames |-> 0]
    /\ rtePools = {}
    /\ rteCreated = [name \in RingNames |-> 0]
    /\ pri = [p \in PriProcs |-> PriProcess]
    /\ secm = SecManager

PriAbsent == PriStart

(***************************************************************************)
(* The primary's traffic switching loop    (testcase_traffic_switch.cpp)   *)
(***************************************************************************)
\* const unsigned batch_size
batch_size == 32

SwDirs == {"gnb_to_ue", "ue_to_gnb"}
\* the ring each part of the loop dequeues from and the ring it enqueues on
SwSrc(dir) == IF dir = "gnb_to_ue" THEN "gnb_tx_ch1" ELSE "ue_tx_ch1"
SwDst(dir) == IF dir = "gnb_to_ue" THEN "ue_inbound_ring" ELSE "gnb_inbound_ring"
SwRingNames == {"gnb_tx_ch1", "ue_tx_ch1", "gnb_inbound_ring", "ue_inbound_ring"}

\* rte_ring_dequeue_burst of at most n objects: [objs, ring]
rte_ring_dequeue_burst(ring, n) ==
    LET k == Min(n, Len(ring))
    IN [objs |-> SubSeq(ring, 1, k), ring |-> SubSeq(ring, k + 1, Len(ring))]

\* rte_ring_enqueue_burst of objs on a ring with room for SwRingCap objects:
\* [n, ring]
rte_ring_enqueue_burst(ring, objs) ==
    LET k == Min(Len(objs), SwRingCap - Len(ring))
    IN [n |-> k, ring |-> ring \o SubSeq(objs, 1, k)]

\* a switch that keeps the packets the destination ring refused
switch_frees_nothing(mbufs, enqueued) == << >>

\* for (i = enqueued; i < n; i++) rte_pktmbuf_free(mbufs[i])
switch_frees(mbufs, enqueued) == SubSeq(mbufs, enqueued + 1, Len(mbufs))

\* one part of the loop body: dequeue a batch from the source ring of dir,
\* enqueue it on the destination ring, free what was not enqueued
switch_part(s, dir) ==
    LET d == rte_ring_dequeue_burst(s.rings[SwSrc(dir)], batch_size)
        e == rte_ring_enqueue_burst(s.rings[SwDst(dir)], d.objs)
        freed == switch_frees(d.objs, e.n)
    IN IF Len(d.objs) = 0 THEN s
       ELSE [s EXCEPT !.rings[SwSrc(dir)] = d.ring,
                      !.rings[SwDst(dir)] = e.ring,
                      !.total[dir] = @ + e.n,
                      !.switched_traffic = @ \/ e.n > 0,
                      !.taken[dir] = @ \o d.objs,
                      !.fwd[dir] = @ \o SubSeq(d.objs, 1, e.n),
                      !.freed[dir] = @ \o freed]

\* the loop condition and, when it holds, part 1 of the body (GNB to UE)
SwitchPart1 ==
    /\ sw.pc = "head"
    /\ IF sw.shutdown
       THEN sw' = [sw EXCEPT !.pc = "done"]
       ELSE sw' = [switch_part([sw EXCEPT !.switched_traffic = FALSE], "gnb_to_ue")
                      EXCEPT !.pc = "part2"]
    /\ UNCHANGED notSw

\* part 2 of the body (UE to GNB), to the end of the pass
SwitchPart2 ==
    /\ sw.pc = "part2"
    /\ sw' = [switch_part(sw, "ue_to_gnb") EXCEPT !.pc = "head"]
    /\ UNCHANGED notSw

\* a secondary enqueues a packet on its TX ring; it keeps the packet when the
\* ring is full
SwProduce ==
    /\ sw.pc # "absent"
    /\ sw.produced < MaxSwPkts
    /\ \E dir \in SwDirs :
           /\ Len(sw.rings[SwSrc(dir)]) < SwRingCap
           /\ sw' = [sw EXCEPT !.rings[SwSrc(dir)] = Append(@, sw.produced + 1),
                               !.produced = @ + 1,
                               !.sent[dir] = Append(@, sw.produced + 1)]
    /\ UNCHANGED notSw

\* a secondary dequeues a packet from its inbound ring
SwConsume ==
    /\ \E dir \in SwDirs :
           /\ sw.rings[SwDst(dir)] # << >>
           /\ sw' = [sw EXCEPT !.rings[SwDst(dir)] = Tail(@),
                               !.got[dir] = Append(@, Head(sw.rings[SwDst(dir)]))]
    /\ UNCHANGED notSw

\* the signal handler sets g_shutdown_requested
SwShutdown ==
    /\ sw.pc \in {"head", "part2"}
    /\ ~sw.shutdown
    /\ sw' = [sw EXCEPT !.shutdown = TRUE]
    /\ UNCHANGED notSw

\* the switch has found its four rings and reaches its loop; sent, taken, fwd,
\* freed and got are history
SwStart ==
    sw = [pc |-> "head", shutdown |-> FALSE, switched_traffic |-> FALSE,
          rings |-> [r \in SwRingNames |-> << >>],
          total |-> [d \in SwDirs |-> 0], produced |-> 0,
          sent |-> [d \in SwDirs |-> << >>], taken |-> [d \in SwDirs |-> << >>],
          fwd |-> [d \in SwDirs |-> << >>], freed |-> [d \in SwDirs |-> << >>],
          got |-> [d \in SwDirs |-> << >>]]

\* no traffic switch runs
SwAbsent ==
    sw = [pc |-> "absent", shutdown |-> FALSE, switched_traffic |-> FALSE,
          rings |-> [r \in SwRingNames |-> << >>],
          total |-> [d \in SwDirs |-> 0], produced |-> 0,
          sent |-> [d \in SwDirs |-> << >>], taken |-> [d \in SwDirs |-> << >>],
          fwd |-> [d \in SwDirs |-> << >>], freed |-> [d \in SwDirs |-> << >>],
          got |-> [d \in SwDirs |-> << >>]]

(***************************************************************************)
(* SpscQueue::push and SpscQueue::pop step by step, one thread calling     *)
(* push and another calling pop                   (channel_fifo.hpp)       *)
(***************************************************************************)
\* what a slot holds besides an item (the items are numbered from 1): a
\* moved-from T, or a T whose assignment is under way or was disturbed
SlotMoved == 0
SlotTorn == 0 - 1

\* c & _mask of a counter: _cap is a power of two and divides 2^64
SlotOf(c, cap) == c % cap

\* the values _head and _tail hold when the two threads start: 0 after the
\* constructor, or 2^64 - 1 after that many pushes and pops
SpscStarts == {0, 0 - 1}

\* the statement of push that follows the one at pc, and a push that
\* publishes the new head before it has written the slot
push_next_publish_first(pc) ==
    CASE pc = "load_head" -> "load_tail"
      [] pc = "load_tail" -> "store_head"
      [] pc = "store_head" -> "write_slot"
      [] pc = "write_slot" -> "write_done"
      [] pc = "write_done" -> "idle"

push_next(pc) ==
    CASE pc = "load_head" -> "load_tail"
      [] pc = "load_tail" -> "write_slot"
      [] pc = "write_slot" -> "write_done"
      [] pc = "write_done" -> "store_head"
      [] pc = "store_head" -> "idle"

\* the producer calls push(v): auto h = _head.load(relaxed); auto n = h + 1
PushLoadHead ==
    /\ spsc.p.pc = "idle"
    /\ spsc.calls < MaxSpscPush
    /\ spsc' = [spsc EXCEPT !.p = [pc |-> push_next("load_head"), h |-> spsc.head,
                                   n |-> spsc.head + 1, v |-> spsc.calls + 1],
                            !.calls = @ + 1]
    /\ UNCHANGED notSpsc

\* if (n - _tail.load(acquire) > _cap) return false: the load returns the
\* latest tail or an older one, never one older than the producer has seen
PushLoadTail ==
    /\ spsc.p.pc = "load_tail"
    /\ \E t \in spsc.tail_seen..spsc.tail :
           IF SizeGt(spsc.p.n - t, spsc.cap)
           THEN spsc' = [spsc EXCEPT !.p.pc = "idle", !.tail_seen = t,
                                     !.refused = Append(@, spsc.p.v)]
           ELSE spsc' = [spsc EXCEPT !.p.pc = push_next("load_tail"), !.tail_seen = t]
    /\ UNCHANGED notSpsc

\* _buf[h & _mask] = v begins: the assignment of a T is not one atomic step
PushWriteSlot ==
    /\ spsc.p.pc = "write_slot"
    /\ spsc' = [spsc EXCEPT !.p.pc = push_next("write_slot"),
                            !.buf[SlotOf(spsc.p.h, spsc.cap)] = SlotTorn,
                            !.raced = @ \/ ( /\ spsc.c.pc = "read_done"
                                             /\ SlotOf(spsc.c.t, spsc.cap)
                                                = SlotOf(spsc.p.h, spsc.cap) )]
    /\ UNCHANGED notSpsc

\* the assignment is complete
PushWriteDone ==
    /\ spsc.p.pc = "write_done"
    /\ spsc' = [spsc EXCEPT !.p.pc = push_next("write_done"),
                            !.buf[SlotOf(spsc.p.h, spsc.cap)] = spsc.p.v]
    /\ UNCHANGED notSpsc

\* _head.store(n, release); return true
PushStoreHead ==
    /\ spsc.p.pc = "store_head"
    /\ spsc' = [spsc EXCEPT !.p.pc = push_next("store_head"), !.head = spsc.p.n,
                            !.pushed = Append(@, spsc.p.v)]
    /\ UNCHANGED notSpsc

\* the consumer calls pop(out): auto t = _tail.load(relaxed)
PopLoadTail ==
    /\ spsc.c.pc = "idle"
    /\ spsc' = [spsc EXCEPT !.c = [pc |-> "load_head", t |-> spsc.tail, out |-> SlotMoved]]
    /\ UNCHANGED notSpsc

\* if (t == _head.load(acquire)) return false
PopLoadHead ==
    /\ spsc.c.pc = "load_head"
    /\ \E h \in spsc.head_seen..spsc.head :
           IF spsc.c.t = h
           THEN spsc' = [spsc EXCEPT !.c.pc = "idle", !.head_seen = h]
           ELSE spsc' = [spsc EXCEPT !.c.pc = "read_slot", !.head_seen = h]
    /\ UNCHANGED notSpsc

\* out = std::move(_buf[t & _mask]) begins
PopReadSlot ==
    /\ spsc.c.pc = "read_slot"
    /\ spsc' = [spsc EXCEPT !.c.pc = "read_done",
                            !.c.out = spsc.buf[SlotOf(spsc.c.t, spsc.cap)],
                            !.raced = @ \/ ( /\ spsc.p.pc = "write_done"
                                             /\ SlotOf(spsc.c.t, spsc.cap)
                                                = SlotOf(spsc.p.h, spsc.cap) )]
    /\ UNCHANGED notSpsc

\* the move is complete: the slot is left moved-from, unless the producer
\* has written it in between
PopReadDone ==
    /\ spsc.c.pc = "read_done"
    /\ spsc' = [spsc EXCEPT !.c.pc = "store_tail",
                            !.buf[SlotOf(spsc.c.t, spsc.cap)] =
                                IF @ = spsc.c.out THEN SlotMoved ELSE SlotTorn]
    /\ UNCHANGED notSpsc

\* _tail.store(t + 1, release); return true
PopStoreTail ==
    /\ spsc.c.pc = "store_tail"
    /\ spsc' = [spsc EXCEPT !.c.pc = "idle", !.tail = spsc.c.t + 1,
                            !.popped = Append(@, spsc.c.out)]
    /\ UNCHANGED notSpsc

\* a queue of the given capacity whose counters stand at c0, empty, with both
\* threads outside push and pop; calls, pushed, refused, popped and raced are
\* history
SpscThreads(cap, c0) ==
    [cap |-> cap, buf |-> [k \in 0..(cap - 1) |-> SlotMoved], head |-> c0, tail |-> c0,
     tail_seen |-> c0, head_seen |-> c0,
     p |-> [pc |-> "idle", h |-> c0, n |-> c0, v |-> 0],
     c |-> [pc |-> "idle", t |-> c0, out |-> SlotMoved],
     calls |-> 0, pushed |-> << >>, refused |-> << >>, popped |-> << >>,
     raced |-> FALSE]

SpscStart == \E cap \in {1, 2}, c0 \in SpscStarts : spsc = SpscThreads(cap, c0)

\* no queue is shared by two threads
SpscAbsent == spsc = [SpscThreads(1, 0) EXCEPT !.p.pc = "absent", !.c.pc = "absent"]

(***************************************************************************)
(* Sequences of push, pop and clear calls on one SpscQueue<RxPacket>       *)
(*                                                 (channel_fifo.hpp)      *)
(***************************************************************************)
\* the k-th record handed to push
FifoItem(k) == [DefaultRxPacket EXCEPT !.src = k, !.nsamps = 1, !.iq = << k, 0, 0, 0 >>]

\* the queue a call found and what the call returned
FifoCall(op, ok, before) == [op |-> op, ok |-> ok, before |-> before]

FifoPush ==
    /\ fifo.live
    /\ fifo.calls < MaxFifoCalls
    /\ LET r == push(fifo.q, FifoItem(fifo.calls + 1))
       IN fifo' = [fifo EXCEPT !.q = r.q, !.calls = @ + 1,
                               !.last = FifoCall("push", r.ok, fifo.q)]
    /\ UNCHANGED notFifo

FifoPopCall ==
    /\ fifo.live
    /\ fifo.calls < MaxFifoCalls
    /\ LET r == pop(fifo.q)
       IN fifo' = [fifo EXCEPT !.q = r.q, !.calls = @ + 1,
                               !.last = FifoCall("pop", r.ok, fifo.q)]
    /\ UNCHANGED notFifo

FifoClear ==
    /\ fifo.live
    /\ fifo.calls < MaxFifoCalls
    /\ fifo' = [fifo EXCEPT !.q = clear(fifo.q), !.calls = @ + 1,
                            !.last = FifoCall("clear", TRUE, fifo.q)]
    /\ UNCHANGED notFifo

\* the capacities the constructor is given (3 is rounded up to 4), and the
\* value both counters hold when the calls begin: 0 after the constructor, or
\* 2^64 - 2 after as many pushes and pops
FifoCapacities == {1, 2, 3}
FifoStarts == {0, 0 - 2}

FifoQueue(capacity_pow2, c0) == [SpscQueue(capacity_pow2) EXCEPT !.head = c0, !.tail = c0]

FifoStart ==
    \E capacity_pow2 \in FifoCapacities, c0 \in FifoStarts :
        fifo = [live |-> TRUE, q |-> FifoQueue(capacity_pow2, c0), calls |-> 0,
                last |-> FifoCall("none", TRUE, FifoQueue(capacity_pow2, c0))]

\* no queue is under study
FifoAbsent ==
    fifo = [live |-> FALSE, q |-> SpscQueue(1), calls |-> 0,
            last |-> FifoCall("none", TRUE, SpscQueue(1))]

(***************************************************************************)
(* stop_rx_worker                           (rx_worker.cpp)                *)
(***************************************************************************)
\* stop_rx_worker(h) is called on the handle of a started worker: the thread
\* is joinable, and the call goes into thread::join.  run_flag is not written.
StopRxWorkerCall ==
    /\ joiner = "idle"
    /\ worker.pc # "none"
    /\ joiner' = "joining"
    /\ UNCHANGED notJoin

\* join returns once the worker thread has left its function
StopRxWorkerJoin ==
    /\ joiner = "joining"
    /\ worker.pc = "exit"
    /\ joiner' = "returned"
    /\ UNCHANGED notJoin

\* a worker is running and nobody has called stop_rx_worker
JoinStart == joiner = "idle"

\* no stop_rx_worker call is under study
JoinAbsent == joiner = "absent"

(***************************************************************************)
(* Specifications                                                          *)
(***************************************************************************)
\* the streamer alone: no demux worker is configured
RxInit == RxStart /\ DmxAbsent /\ TxAbsent /\ CodecAbsent /\ SecAbsent /\ PriAbsent /\ SwAbsent /\ SpscAbsent /\ FifoAbsent /\ JoinAbsent

RxNext ==
    \/ IssueStreamCmd
    \/ RecvEnter
    \/ RecvPoll
    \/ RecvTimeoutElapses
    \/ RxProduce

SpecRx == RxInit /\ [][RxNext]_vars

RxStopNext ==
    \/ IssueStreamCmd
    \/ RecvEnter
    \/ RecvPoll
    \/ RecvTimeoutElapses
    \/ RxProduceSingle

\* the streamer with a sparse producer, and the recv thread keeps running: a
\* poll pass that can change the state is eventually taken.  Nothing makes the
\* clock reach the timeout.
SpecRxStop == RxInit /\ [][RxStopNext]_vars /\ WF_vars(RecvPoll)

\* the demux worker alone, with its producer, its consumers and its owner
DmxInit == DmxStart /\ RxAbsent /\ TxAbsent /\ CodecAbsent /\ SecAbsent /\ PriAbsent /\ SwAbsent /\ SpscAbsent /\ FifoAbsent /\ JoinAbsent

DmxNext ==
    \/ DemuxLoop
    \/ DemuxPacket
    \/ DemuxStop
    \/ FifoPop
    \/ DmxProduce

SpecDmx == DmxInit /\ [][DmxNext]_vars

\* the worker with one-slot queues, and the worker thread keeps running: a
\* pass of its loop head or of its loop body that can change the state is
\* eventually taken.  Nothing is assumed of the producer, the consumers or
\* the owner of run_flag.
DmxStopInit == DmxInit /\ cfg.fifo_capacity = 1

\* the worker over two blocks of two packets each: one channel, two packets
\* per channel, timestamps configured, under both header layouts
DmxBlockInit == DmxInit /\ cfg.num_channels = 1 /\ cfg.pkts_per_chan = 2 /\ cfg.tsf_present

DmxBlockNext ==
    \/ DemuxLoop
    \/ DemuxPacket
    \/ FifoPop
    \/ DmxProduceBlocks

SpecDmxBlock == DmxBlockInit /\ [][DmxBlockNext]_vars

SpecDmxStop ==
    DmxStopInit /\ [][DmxNext]_vars /\ WF_vars(DemuxLoop) /\ WF_vars(DemuxPacket)

\* the TX streamer alone, with its caller and the consumer of its ring
TxInit == TxStart /\ RxAbsent /\ DmxAbsent /\ CodecAbsent /\ SecAbsent /\ PriAbsent /\ SwAbsent /\ SpscAbsent /\ FifoAbsent /\ JoinAbsent

TxNext ==
    \/ TxSend
    \/ TxDestroy
    \/ TxDrain

SpecTx == TxInit /\ [][TxNext]_vars

\* the encoders and decoders alone
CodecInit == CodecStart /\ RxAbsent /\ DmxAbsent /\ TxAbsent /\ SecAbsent /\ PriAbsent /\ SwAbsent /\ SpscAbsent /\ FifoAbsent /\ JoinAbsent

CodecNext ==
    \/ TxWorkerEncode
    \/ TxStreamerEncode
    \/ DecodeAny

SpecCodec == CodecInit /\ [][CodecNext]_vars

\* the secondary's send_burst alone, with its callers and the ring consumers
SecInit == SecStart /\ RxAbsent /\ DmxAbsent /\ TxAbsent /\ CodecAbsent /\ PriAbsent /\ SwAbsent /\ SpscAbsent /\ FifoAbsent /\ JoinAbsent

SecNext ==
    \/ SecSendBurst
    \/ SecDrain

SpecSec == SecInit /\ [][SecNext]_vars

\* two processes bringing up their rings and pools, in any interleaving of
\* their library calls
PriInit == PriStart /\ RxAbsent /\ DmxAbsent /\ TxAbsent /\ CodecAbsent /\ SecAbsent /\ SwAbsent /\ SpscAbsent /\ FifoAbsent /\ JoinAbsent

PriNext ==
    \/ InitResourcesCall
    \/ InitResourcesStep
    \/ CreateOneRingLookup
    \/ CreateOneRingCreate

SpecPri == PriInit /\ [][PriNext]_vars

\* the primaries' init_resources and a secondary's, in any interleaving of
\* their library calls
SecInitNext ==
    \/ InitResourcesCall
    \/ InitResourcesStep
    \/ SecInitResourcesCall
    \/ SecInitResourcesStep

SpecSecInit == PriInit /\ [][SecInitNext]_vars

\* the two primaries, each constructed once and initialised once, with one
\* interconnect list
IcNext ==
    \/ IcInitResourcesCall
    \/ InitResourcesStep

SpecIc == PriInit /\ [][IcNext]_vars

\* the traffic switch between the producing and the consuming secondaries
SwInit == SwStart /\ RxAbsent /\ DmxAbsent /\ TxAbsent /\ CodecAbsent /\ SecAbsent /\ PriAbsent /\ SpscAbsent /\ FifoAbsent /\ JoinAbsent

SwNext ==
    \/ SwitchPart1
    \/ SwitchPart2
    \/ SwProduce
    \/ SwConsume
    \/ SwShutdown

SpecSw == SwInit /\ [][SwNext]_vars

\* a producer thread and a consumer thread on one SpscQueue, their loads,
\* slot accesses and stores interleaved in every way
SpscInit ==
    SpscStart /\ RxAbsent /\ DmxAbsent /\ TxAbsent /\ CodecAbsent /\ SecAbsent /\ PriAbsent
    /\ SwAbsent /\ FifoAbsent /\ JoinAbsent

SpscNext ==
    \/ PushLoadHead
    \/ PushLoadTail
    \/ PushWriteSlot
    \/ PushWriteDone
    \/ PushStoreHead
    \/ PopLoadTail
    \/ PopLoadHead
    \/ PopReadSlot
    \/ PopReadDone
    \/ PopStoreTail

SpecSpsc == SpscInit /\ [][SpscNext]_vars

\* any sequence of push, pop and clear calls on one queue
FifoInit ==
    FifoStart /\ RxAbsent /\ DmxAbsent /\ TxAbsent /\ CodecAbsent /\ SecAbsent /\ PriAbsent
    /\ SwAbsent /\ SpscAbsent /\ JoinAbsent

FifoNext ==
    \/ FifoPush
    \/ FifoPopCall
    \/ FifoClear

SpecFifo == FifoInit /\ [][FifoNext]_vars

\* the demux worker with one-slot queues and a thread that may call
\* stop_rx_worker; the worker thread keeps running and a join that can return
\* does.  Whether the owner of run_flag ever clears it is left open.
DmxJoinInit ==
    DmxStart /\ JoinStart /\ cfg.fifo_capacity = 1
    /\ RxAbsent /\ TxAbsent /\ CodecAbsent /\ SecAbsent /\ PriAbsent
    /\ SwAbsent /\ SpscAbsent /\ FifoAbsent

DmxJoinNext ==
    \/ DmxNext
    \/ StopRxWorkerCall
    \/ StopRxWorkerJoin

SpecDmxJoin ==
    /\ DmxJoinInit
    /\ [][DmxJoinNext]_vars
    /\ WF_vars(DemuxLoop) /\ WF_vars(DemuxPacket) /\ WF_vars(StopRxWorkerJoin)

(***************************************************************************)
(* Properties of flexsdr_rx_streamer                                       *)
(***************************************************************************)
\* the samples of channel ch (1-based) a packet carries, by the wire format:
\* after the header, [ch0 s0][ch1 s0]...[chN-1 s0][ch0 s1]..., each sample an
\* (I, Q) pair of native int16; a packet shorter than its header carries none
PayloadOfChannel(m, ch) ==
    LET nch == get_num_channels
        nvalues == IF Len(m.data) < opt.vrt_hdr_bytes THEN 0
                   ELSE (Len(m.data) - opt.vrt_hdr_bytes) \div 2
        nsamps == nvalues \div (2 * nch)
    IN [j \in 1..(2 * nsamps) |->
           NativeLoadI16(m.data, opt.vrt_hdr_bytes
                                 + 2 * ((((j - 1) \div 2) * nch + (ch - 1)) * 2 + ((j - 1) % 2)))]

RECURSIVE ConcatPayload(_, _)
ConcatPayload(mbufs, ch) ==
    IF mbufs = << >> THEN << >>
    ELSE PayloadOfChannel(Head(mbufs), ch) \o ConcatPayload(Tail(mbufs), ch)

\* C1: between recv calls, what the calls so far wrote for a channel is, in
\* order, exactly the payload samples of that channel in the packets taken from
\* the ring: nothing lost (a packet's untaken remainder is delivered by the
\* next call), nothing duplicated.
C1_NoLossNoDup ==
    recvCall.pc = "idle" =>
        \A ch \in 1..get_num_channels : rxDelivered[ch] = ConcatPayload(rxTaken, ch)

\* C5: a recv call that waited on a running stream returns only with every
\* buffer filled to nsamps_per_buff, or after its timeout expired, or after a
\* stop.
C5_ReturnsOnlyWhenFull ==
    recvRet.exit \in {"data", "timeout", "stopped"} =>
        \/ recvRet.n = recvRet.nsamps
        \/ recvRet.expired
        \/ ~recvRet.running

\* C6: a return of 0 samples carries error code TIMEOUT, a return of a nonzero
\* count carries error code NONE.
C6_ZeroIffTimeout ==
    recvRet.exit # "none" =>
        /\ recvRet.n = 0 => md.error_code = "TIMEOUT"
        /\ recvRet.n # 0 => md.error_code = "NONE"

\* C7: a recv call that is polling while the stream is stopped returns (or
\* the stream is started again); no expiry of the timeout is needed for that.
C7_StopEndsPolling ==
    (recvCall.pc = "poll" /\ ~running) ~> (recvCall.pc = "idle" \/ running)

\* C7 witness: a call left its poll loop because of the stop, before its
\* timeout expired
C7_Witness == recvRet.exit = "stopped" /\ ~recvRet.expired

\* the first packet the last recv call dequeued
FirstPacketOfCall == rxTaken[Len(rxTaken) - recvRet.n_dequeued + 1]

\* C8: after a call that delivered samples, has_time_spec tells whether the
\* call's first packet carried a timestamp: parsing enabled and the packet at
\* least tsf_offset + 8 bytes long.
C8_HasTimeSpecIffCarried ==
    (recvRet.exit = "data" /\ recvRet.n > 0) =>
        (md.has_time_spec <=>
            (opt.parse_tsf /\ Len(FirstPacketOfCall.data) >= opt.tsf_offset + 8))

(***************************************************************************)
(* Properties of the RX demux worker                                       *)
(***************************************************************************)
\* the records a queue holds, oldest first
QueueContents(q) == [i \in 1..(q.head - q.tail) |-> q.buf[Slot(q, q.tail + i - 1)]]

\* the 0-based position, in dequeue order, of the ingress packet a record was
\* decoded from
DequeueIndex(r) == (CHOOSE i \in 1..Len(dmxSeen) : dmxSeen[i].id = r.src) - 1

\* what the packet at 0-based dequeue position k decodes to on its own
OwnDecode(k) == parse_vrt(dmxSeen[k + 1], cfg.vrt_hdr_bytes, cfg.tsf_offset, cfg.tsf_present)

\* C2: for every channel whose queue never refused a push, the records popped
\* so far followed by the records still queued are, in order, the decoded
\* packets the demux assigned to the channel, and these are in ingress order;
\* so the popped sequence is that subsequence, in the same order.
C2_PerChannelOrder ==
    worker.pc # "none" =>
        \A ch \in 1..cfg.num_channels :
            ch \notin counters.dropped_on =>
                /\ dmxPopped[ch] \o QueueContents(fifos[ch]) = dmxAssigned[ch]
                /\ \A i, j \in 1..Len(dmxAssigned[ch]) :
                       i < j => DequeueIndex(dmxAssigned[ch][i]) < DequeueIndex(dmxAssigned[ch][j])
                /\ \A i \in 1..Len(dmxAssigned[ch]) :
                       LET own == OwnDecode(DequeueIndex(dmxAssigned[ch][i]))
                       IN own.ok /\ own.p.iq = dmxAssigned[ch][i].iq

\* two records were popped from the first channel's queue, on which nothing
\* was dropped, and a packet between them went to the second channel
C2_Witness ==
    /\ worker.pc # "none"
    /\ cfg.num_channels = 2
    /\ 1 \notin counters.dropped_on
    /\ Len(dmxPopped[1]) >= 2
    /\ \E i \in 1..Len(dmxAssigned[2]) :
           /\ DequeueIndex(dmxPopped[1][1]) < DequeueIndex(dmxAssigned[2][i])
           /\ DequeueIndex(dmxAssigned[2][i]) < DequeueIndex(dmxPopped[1][2])

\* C3: under Planar framing a record popped from the queue of channel ch, made
\* from the k-th dequeued packet (k from 0, undecodable packets counted), has
\* ch = (k div N) mod num_channels, sob iff k mod N = 0 and eob iff
\* k mod N = N - 1, N the packets per channel.
C3_PlanarAssignment ==
    (worker.pc # "none" /\ cfg.mode = "Planar") =>
        \A ch \in 1..cfg.num_channels :
            \A j \in 1..Len(dmxPopped[ch]) :
                LET r == dmxPopped[ch][j]
                    k == DequeueIndex(r)
                IN /\ ch - 1 = (k \div GroupSize) % cfg.num_channels
                   /\ r.chan = ch - 1
                   /\ r.sob <=> (k % GroupSize = 0)
                   /\ r.eob <=> (k % GroupSize = GroupSize - 1)

\* a record was popped from the second channel under Planar framing, made from
\* a packet that was dequeued after a packet that did not decode
C3_Witness ==
    /\ worker.pc # "none"
    /\ cfg.mode = "Planar"
    /\ cfg.num_channels = 2
    /\ \E j \in 1..Len(dmxPopped[2]) :
           \E k \in 0..(DequeueIndex(dmxPopped[2][j]) - 1) : ~OwnDecode(k).ok

\* the 0-based dequeue position of the leader of the block of position k
BlockLeader(k) == k - (k % (cfg.num_channels * GroupSize))

\* C4: a record made from a packet that is not the leader of its block keeps
\* the timestamp the packet carries; if the packet carries none and the leader
\* decoded with a timestamp, the record has the leader's timestamp.
C4_LeaderTsfOnlyFallback ==
    worker.pc # "none" =>
        \A ch \in 1..cfg.num_channels :
            \A j \in 1..Len(dmxAssigned[ch]) :
                LET r == dmxAssigned[ch][j]
                    k == DequeueIndex(r)
                    own == OwnDecode(k).p
                    leader == OwnDecode(BlockLeader(k))
                IN k # BlockLeader(k) =>
                       /\ own.have_tsf => (r.have_tsf /\ r.tsf_ticks = own.tsf_ticks)
                       /\ (~own.have_tsf /\ leader.ok /\ leader.p.have_tsf) =>
                              (r.have_tsf /\ r.tsf_ticks = leader.p.tsf_ticks)

\* the fallback half of C4 alone
C4_FallbackHalf ==
    worker.pc # "none" =>
        \A ch \in 1..cfg.num_channels :
            \A j \in 1..Len(dmxAssigned[ch]) :
                LET r == dmxAssigned[ch][j]
                    k == DequeueIndex(r)
                    own == OwnDecode(k).p
                    leader == OwnDecode(BlockLeader(k))
                IN (k # BlockLeader(k) /\ ~own.have_tsf /\ leader.ok /\ leader.p.have_tsf) =>
                       (r.have_tsf /\ r.tsf_ticks = leader.p.tsf_ticks)

(***************************************************************************)
(* Properties of flexsdr_tx_streamer                                       *)
(***************************************************************************)
\* ceil(n / d)
CeilDiv(n, d) == (n + d - 1) \div d

\* C9: with allow_partial false, a send whose nsamps_per_buff is not a multiple
\* of spp returns 0 and builds no packet, and a one-buffer send of a positive
\* multiple of spp is accepted (returns nsamps_per_buff) when the pool has a
\* free mbuf for every spp samples and an mbuf has room for them all (a call
\* that returned 0 left the pool as it found it).
C9_MultipleOfSppAccepted ==
    (txCalls > 0 /\ ~txs.allow_partial) =>
        /\ txRet.nsamps % txs.spp # 0 => (txRet.ret = 0 /\ txRet.built = << >>)
        /\ ( /\ txRet.nbuffs = 1
             /\ txRet.nsamps > 0
             /\ txRet.nsamps % txs.spp = 0
             /\ (txRet.ret = 0 => txPoolFree >= txRet.nsamps \div txs.spp)
             /\ txs.tailroom >= TxHdrBytes + 4 * txRet.nsamps )
           => txRet.ret = txRet.nsamps

\* C10: a send that accepted n samples built ceil(n / spp) packets, each of
\* spp samples except that with allow_partial the last may carry the
\* remainder; none carries more than spp samples.
C10_PacketsOfAtMostSpp ==
    (txCalls > 0 /\ txRet.ret > 0) =>
        /\ Len(txRet.built) = CeilDiv(txRet.nsamps, txs.spp)
        /\ \A i \in 1..Len(txRet.built) :
               /\ TxSampsOf(txRet.built[i]) <= txs.spp
               /\ (i < Len(txRet.built) \/ ~txs.allow_partial) =>
                      TxSampsOf(txRet.built[i]) = txs.spp

\* the samples of a history of mbufs
RECURSIVE SumSamps(_)
SumSamps(h) == IF h = << >> THEN 0 ELSE Head(h).nsamps + SumSamps(Tail(h))

\* the streamer was constructed and has been destroyed
TxDestroyed == txs.spp # 0 /\ ~txs.alive

\* C11: once the streamer is destroyed, the sum of the values its send calls
\* returned equals the samples in the packets that were enqueued on the ring.
C11_AcceptedOnlyIfEnqueued ==
    TxDestroyed => txAccepted = SumSamps(txEnqueued)

\* how often the mbuf id occurs in a history
TxOccurrences(h, id) == Cardinality({i \in 1..Len(h) : h[i].id = id})

\* every allocated mbuf is staged, enqueued or released, exactly one of them
\* and exactly once; none is staged once the streamer is destroyed
TxOwnedOnce ==
    /\ \A id \in 1..txAllocated :
           TxOccurrences(txEnqueued, id) + TxOccurrences(txFreed, id)
               + TxOccurrences(TxHistoryOf(staged), id) = 1
    /\ TxDestroyed => staged = << >>

\* a step that empties the staging array enqueues a prefix of what was staged
\* (the mbuf of the running send included) and releases exactly the rest
TxReleasesSuffix ==
    (staged' = << >> /\ (staged # << >> \/ txAllocated' # txAllocated)) =>
        \E k \in 0..(Len(staged) + 1) :
            LET all == TxHistoryOf(staged)
                       \o (IF txAllocated' # txAllocated
                           THEN << [id |-> txAllocated', nsamps |-> txAccepted' - txAccepted] >>
                           ELSE << >>)
            IN /\ k <= Len(all)
               /\ txEnqueued' = txEnqueued \o SubSeq(all, 1, k)
               /\ txFreed' = txFreed \o SubSeq(all, k + 1, Len(all))

\* C12: every mbuf the streamer allocated is, once the streamer is destroyed,
\* either enqueued on the ring exactly once or released to the pool exactly
\* once, never both and never neither; a flush releases exactly the suffix
\* of the staged mbufs that the ring did not take.
C12_EnqueuedOrReleasedOnce == [](TxOwnedOnce) /\ [][TxReleasesSuffix]_vars

\* the streamer is destroyed after a flush that the ring took only a part of:
\* an mbuf with samples was released and another was enqueued
C12_Witness ==
    /\ TxDestroyed
    /\ txEnqueued # << >>
    /\ \E i \in 1..Len(txFreed) : txFreed[i].nsamps > 0

\* C13: after a send call whose metadata asserts end_of_burst no packet is
\* left staged: all of them were submitted to the ring.
C13_EobFlushes ==
    (txCalls > 0 /\ txs.alive /\ txRet.metadata.end_of_burst) => staged = << >>

(***************************************************************************)
(* Properties of the header encoders and decoders                          *)
(***************************************************************************)
\* a packet was built by the TX worker or by the TX streamer
CodecBuilt == codec.op \in {"tx_worker", "tx_streamer"}

\* C14: a packet built by the TX streamer or by the TX worker holds in bytes
\* [0..4) the big-endian value ceil((header_bytes + payload_bytes) / 4).
C14_LengthInWords ==
    CodecBuilt =>
        load_u32_be(codec.pkt, 0)
            = CeilDiv(codec.cfg.vrt_hdr_bytes + 4 * codec.item.nsamps, 4)

\* the TX worker built a packet whose length is not a multiple of 4 bytes
C14_Witness ==
    /\ codec.op = "tx_worker"
    /\ codec.item.nsamps > 0
    /\ Len(codec.pkt) % 4 # 0

\* C16: a packet the TX worker wrote for a non-empty payload, decoded by
\* parse_vrt under the same header_bytes and tsf_offset (tsf_offset + 8 <=
\* header_bytes), yields the stream id, the timestamp (timestamps enabled) and
\* the payload bytes of the item.
C16_EncodeDecodeIdentity ==
    ( /\ codec.op = "tx_worker"
      /\ codec.item.nsamps > 0
      /\ codec.cfg.tsf_offset + 8 <= codec.cfg.vrt_hdr_bytes )
    => /\ codec.worker.ok
       /\ codec.worker.p.stream_id = codec.item.stream_id
       /\ codec.worker.p.iq = StoreValues(IqValues(codec.item.first, codec.item.nsamps, 1))
       /\ codec.cfg.tsf_present =>
              (codec.worker.p.have_tsf /\ codec.worker.p.tsf_ticks = codec.item.tsf_ticks)

\* timestamps are enabled and the packet reaches tsf_offset + 8
TsfCarried == codec.cfg.tsf_present /\ codec.cfg.tsf_offset + 8 <= Len(codec.pkt)

Occurrences(ids, id) == Cardinality({i \in 1..Len(ids) : ids[i] = id})

\* the ids of the mbufs on the secondary's TX rings
SecOnRings ==
    UNION {{secRings[chan][i].id : i \in 1..Len(secRings[chan])} : chan \in DOMAIN secRings}

\* C15: a packet on a TX ring of the secondary, put there by send_burst for S
\* samples and the timestamp T, begins with the header: decoding it under the
\* default layout yields payload_bytes = 4 * S and the timestamp T.
C15_EnqueuedPacketHasHeader ==
    \A chan \in DOMAIN secRings :
        \A i \in 1..Len(secRings[chan]) :
            LET m == secRings[chan][i]
                d == parse_vrt(m, DefaultVrtHdrBytes, DefaultTsfOffset, TRUE)
            IN /\ d.ok
               /\ 4 * d.p.nsamps = 4 * m.nsamps
               /\ d.p.have_tsf
               /\ d.p.tsf_ticks = m.tsf

\* the mbuf of the last call is enqueued and not released when the call
\* returned true, and released once and not enqueued when it returned false;
\* no mbuf is both, none is neither, and an mbuf on a ring was not released
SecOwnership ==
    /\ secRet.ret =>
           /\ Occurrences(secHist.enqueued, secRet.id) = 1
           /\ Occurrences(secHist.freed, secRet.id) = 0
    /\ (~secRet.ret /\ secRet.id # 0) =>
           /\ Occurrences(secHist.freed, secRet.id) = 1
           /\ Occurrences(secHist.enqueued, secRet.id) = 0
           /\ secRet.id \notin SecOnRings
    /\ \A id \in 1..secHist.allocated :
           Occurrences(secHist.enqueued, id) + Occurrences(secHist.freed, id) = 1
    /\ \A id \in SecOnRings : Occurrences(secHist.freed, id) = 0

\* a call that returns true leaves its mbuf at the tail of the channel's ring
SecEnqueuedOnReturn ==
    (secHist'.calls # secHist.calls /\ secRet'.ret) =>
        /\ secRings'[secRet'.chan] # << >>
        /\ secRings'[secRet'.chan][Len(secRings'[secRet'.chan])].id = secRet'.id

\* C18: when send_burst returns true its mbuf is on the ring and was not
\* released by the producer; on every path that returns false after the
\* allocation the mbuf was released exactly once and is not on the ring.
C18_OwnershipFollowsEnqueue == [](SecOwnership) /\ [][SecEnqueuedOnReturn]_vars

\* a call found its ring full after an earlier call had enqueued a packet; it
\* is the second call that released its mbuf
C18_Witness ==
    /\ secRet.path = "ring_full"
    /\ secHist.enqueued # << >>
    /\ Len(secHist.freed) >= 2

(***************************************************************************)
(* Properties of ring creation                                             *)
(***************************************************************************)
\* process p has a ring creation request that returned
RingRequestReturned(p) ==
    /\ pri[p].last.op \in {"create_ring_", "create_one_ring"}
    /\ pri[p].pc # "one_create"

\* C19: at most one ring object is ever created under a name, and a creation
\* request that permits reuse and finds its name taken reports success with
\* a handle to the ring that holds the name
C19_OneRingPerNameReused ==
    /\ \A name \in RingNames : rteCreated[name] <= 1
    /\ \A p \in PriProcs :
           LET l == pri[p].last
           IN  (RingRequestReturned(p) /\ l.allow_existing) =>
                   /\ (l.rte_errno = "EEXIST" => l.ok)
                   /\ (l.ok => (l.out = l.name /\ rteRings[l.name] # 0))

\* C20: a create_ring_ call that reports success hands back a ring of the size it
\* was asked for, and after init_resources returned 0 every TX and RX ring of
\* the configuration has the size of its spec
C20_SuccessMeansRequestedSize ==
    \A p \in PriProcs :
        LET me == pri[p]
            l == me.last
            specs == collect_tx_rings_(me.cfg) \o collect_rx_rings_(me.cfg)
        IN  /\ (l.op = "create_ring_" /\ l.ok) => rteRings[l.name] = l.size
            /\ (me.returned = "init_resources" /\ me.rc = 0) =>
                   \A i \in 1..Len(specs) :
                       rteRings[specs[i].name] = RequestedSize(me.cfg, specs[i])

(***************************************************************************)
(* Properties of pool creation and of init_resources                       *)
(***************************************************************************)
\* C21: a pool creation by create_pools_ that finds its name taken succeeds
\* with the existing pool; it fails only when the pool could neither be
\* created nor found
C21_ExistingPoolReused ==
    \A p \in PriProcs : pri[p].pool.rte_errno = "EEXIST" => pri[p].pool.ok

\* C22: when a primary has returned 0 from init_resources on a configuration
\* and the secondary then runs init_resources on the same configuration, the
\* secondary finds every name it looks up and returns 0
C22_SecondaryResolvesAfterPrimary ==
    (secm.returned /\ secm.after_primary) =>
        /\ secm.rc = 0
        /\ \A i \in 1..Len(secm.lookups) : secm.lookups[i].found

\* the lookups of the secondary's current init_resources call follow its plan
\* position by position, and only the last of them can be a miss
SecLooksUpOnceEach ==
    LET plan == SecPlan(secm.cfg)
        n == Len(secm.lookups)
    IN  /\ n <= Len(plan)
        /\ \A i \in 1..n :
               /\ secm.lookups[i].name = plan[i].spec.name
               /\ secm.lookups[i].kind = plan[i].kind
               /\ (i < n => secm.lookups[i].found)
        /\ (n > 0 /\ ~secm.lookups[n].found) => (secm.returned /\ secm.rc = 0 - 2)

\* a step of the secondary leaves the rings and pools of the memory as they are
SecCreatesNothing ==
    secm' # secm => UNCHANGED << rteRings, rtePools, rteCreated >>

\* C23: when a name is missing the secondary's init_resources returns -2 at
\* the first miss, having looked each name up once, without retrying, without
\* looking further, and without creating any pool or ring
C23_FirstMissEndsLookups == [](SecLooksUpOnceEach) /\ [][SecCreatesNothing]_vars

\* the secondary found its pool, missed its TX ring and returned with its RX
\* ring not looked up
C23_Witness ==
    /\ secm.returned
    /\ secm.rc = 0 - 2
    /\ Len(secm.lookups) = 2
    /\ secm.lookups[1].found
    /\ ~secm.lookups[2].found
    /\ Len(SecPlan(secm.cfg)) = 3
    /\ secm.rx_rings_ = << >>

\* C24: a call of the secondary's init_resources that returns 0 after an
\* earlier call returned 0 leaves pools_, tx_rings_ and rx_rings_ as the
\* earlier call left them
C24_RebuildIsIdempotent ==
    (secm.returned /\ secm.rc = 0 /\ secm.rebuilt) => SecHandles(secm) = secm.before

\* the library call at which process p's init_resources stopped
PriFailedItem(p) == PriPlan(pri[p].cfg)[pri[p].step]

\* C25: init_resources does not fail because the interconnect rings of the
\* peer are not there: when it returns an error, the call that failed was not
\* the lookup of an interconnect ring
C25_InterconnectFailureNotFatal ==
    \A p \in PriProcs :
        (pri[p].returned = "init_resources" /\ pri[p].rc # 0) =>
            PriFailedItem(p).kind # "ic_lookup"

\* the place of a library call in the order pools, TX rings, RX rings,
\* interconnect rings
StepRank(kind) ==
    CASE kind = "pool" -> 1
      [] kind = "tx" -> 2
      [] kind = "rx" -> 3
      [] kind \in {"ic_create", "ic_lookup"} -> 4

\* C26: the library calls of one init_resources call come in the order pools,
\* TX rings, RX rings, interconnect rings; no call follows a call that
\* failed; the call returns the error of the failed call, and it returns 0
\* only after every configured call was made
C26_StepsInOrderShortCircuit ==
    \A p \in PriProcs :
        LET made == pri[p].made
            n == Len(made)
        IN  /\ \A i \in 1..n : \A j \in i..n : StepRank(made[i].kind) <= StepRank(made[j].kind)
            /\ \A i \in 1..n : i < n => made[i].rc = 0
            /\ (n > 0 /\ made[n].rc # 0) =>
                   (pri[p].returned = "init_resources" /\ pri[p].rc = made[n].rc)
            /\ (pri[p].returned = "init_resources" /\ pri[p].rc = 0) =>
                   /\ n = Len(PriPlan(pri[p].cfg))
                   /\ Len(pri[p].cfg.primary_gnb.pools) + Len(pri[p].cfg.primary_ue.pools)
                          = Cardinality({i \in 1..n : made[i].kind = "pool"})

\* an init_resources call created its pool, failed on its TX ring and
\* returned -1 with its RX ring and its interconnect ring not attempted
C26_Witness ==
    \E p \in PriProcs :
        /\ pri[p].returned = "init_resources"
        /\ pri[p].rc = 0 - 1
        /\ Len(PriPlan(pri[p].cfg)) = 4
        /\ Len(pri[p].made) = 2
        /\ pri[p].made[1] = [kind |-> "pool", rc |-> 0]
        /\ pri[p].made[2] = [kind |-> "tx", rc |-> 0 - 1]
        /\ pri[p].rx_rings_ = << >>

(***************************************************************************)
(* Properties of the demux worker's packet handling                        *)
(***************************************************************************)
\* the ids of a sequence of mbufs
MbufIds(mbufs) == [k \in 1..Len(mbufs) |-> mbufs[k].id]

\* the packets of the burst in progress that the loop body has not reached
DemuxPending ==
    IF worker.pc = "burst" THEN SubSeq(worker.objs, worker.i, Len(worker.objs))
    ELSE << >>

\* C27: the demux releases every packet it dequeued exactly once: the released
\* packets followed by the ones still waiting in the burst are the dequeued
\* packets, each id once, and after the thread has left its loop nothing is
\* waiting, whatever became of each packet and whenever run_flag was cleared
C27_DequeuedReleasedOnce ==
    /\ MbufIds(dmxSeen) = worker.freed \o MbufIds(DemuxPending)
    /\ \A i, j \in 1..Len(worker.freed) :
           worker.freed[i] = worker.freed[j] => i = j
    /\ worker.pc = "exit" => Len(worker.freed) = Len(dmxSeen)

\* the thread has left its loop after releasing a packet that failed to
\* decode and a record dropped on a full queue, and it released two packets of
\* its last burst after run_flag had become false
C27_Witness ==
    /\ worker.pc = "exit"
    /\ worker.freed_stopped >= 2
    /\ counters.drops >= 1
    /\ Len(dmxSeen) > counters.handled + counters.drops
    /\ Len(worker.freed) = Len(dmxSeen)

\* the packets the loop body has finished with, counted from 0 in dequeue
\* order, and those of them that decode
DemuxDone == Len(dmxSeen) - Len(DemuxPending)

DemuxDecoded == {k \in 0..(DemuxDone - 1) : OwnDecode(k).ok}

RECURSIVE SumLen(_, _)
SumLen(f, n) == IF n = 0 THEN 0 ELSE Len(f[n]) + SumLen(f, n - 1)

\* the records held by the channel queues and those the consumers have popped
DemuxDelivered ==
    SumLen([ch \in 1..cfg.num_channels |-> QueueContents(fifos[ch])], cfg.num_channels)
    + SumLen(dmxPopped, cfg.num_channels)

\* handled counts the records delivered, and handled plus drops is the number
\* of packets that decoded
DemuxCountersBalance ==
    /\ counters.handled = DemuxDelivered
    /\ counters.handled + counters.drops = Cardinality(DemuxDecoded)

\* the queue the loop body is about to push to is full
DemuxFacesFullQueue ==
    /\ worker.pc = "burst"
    /\ LET parsed == parse_vrt(worker.objs[worker.i], cfg.vrt_hdr_bytes,
                               cfg.tsf_offset, cfg.tsf_present)
           q == fifos[AssignChannel(parsed.p, worker.pkt_idx).chan + 1]
       IN  parsed.ok /\ q.head - q.tail = q.cap

\* the loop body, finding the queue full, counts one drop, leaves the queues
\* and handled alone, and has finished with the packet
DemuxDropsOnFullQueue ==
    (DemuxFacesFullQueue /\ worker' # worker) =>
        /\ counters'.drops = counters.drops + 1
        /\ counters'.handled = counters.handled
        /\ fifos' = fifos
        /\ Len(worker'.freed) = Len(worker.freed) + 1
        /\ worker'.pc \in {"burst", "loop"}

\* C28: on a full channel queue the demux counts exactly one drop, discards
\* the record and goes on, and records delivered plus records dropped always
\* equals the number of packets that decoded
C28_FullQueueDropsAndGoesOn == [](DemuxCountersBalance) /\ [][DemuxDropsOnFullQueue]_vars

\* on a one-slot queue the second record was dropped and, after the consumer
\* popped the first, the third was delivered
C28_Witness ==
    /\ counters.drops = 1
    /\ counters.handled = 2
    /\ Len(dmxAssigned[1]) = 3
    /\ QueueContents(fifos[1]) = << dmxAssigned[1][3] >>
    /\ Len(dmxPopped[1]) = 1

\* the loop body is about to work on a packet that does not decode
DemuxFacesParseError ==
    /\ worker.pc = "burst"
    /\ ~parse_vrt(worker.objs[worker.i], cfg.vrt_hdr_bytes,
                  cfg.tsf_offset, cfg.tsf_present).ok

\* C29: the loop body, given a packet that does not decode, releases it,
\* delivers it on no channel, goes on, and adds exactly one to a counter of
\* the worker
C29_ParseErrorCounted ==
    [][(DemuxFacesParseError /\ worker' # worker) =>
          /\ worker'.freed = Append(worker.freed, worker.objs[worker.i].id)
          /\ fifos' = fifos
          /\ worker'.pc \in {"burst", "loop"}
          /\ counters'.handled + counters'.drops
                 = counters.handled + counters.drops + 1]_vars

\* C30: once run_flag is false the demux thread leaves its loop, whether the
\* ingress ring is empty or still being filled
C30_StopEndsDemux == ~run_flag ~> worker.pc = "exit"

\* the thread has left its loop after finishing, with run_flag already false,
\* the burst it had dequeued, and packets enqueued meanwhile are still on the
\* ingress ring
C30_Witness ==
    /\ worker.pc = "exit"
    /\ worker.freed_stopped >= 1
    /\ inRing # << >>
    /\ Len(worker.freed) = Len(dmxSeen)


\* C31: a send call releases a staged packet un-enqueued only after the ring
\* stayed full for the whole timeout its caller passed: the call paused and
\* retried the enqueue for at least `timeout` before releasing, and it never
\* waited longer than the timeout.
C31_ReleasedOnlyAfterTimeout ==
    txCalls > 0 =>
        /\ txRet.paused <= txRet.timeout
        /\ txRet.released # << >> => txRet.paused >= txRet.timeout

\* the header offsets (from 0) of the length field, the stream id and the
\* timestamp, at the configured offset and at the default one
HeaderFieldOffsets(wcfg) ==
    (0..7) \cup (wcfg.tsf_offset..(wcfg.tsf_offset + 7))
           \cup (DefaultTsfOffset..(DefaultTsfOffset + 7))

\* C32: in every packet the TX streamer or the TX worker builds, the header
\* bytes outside the length field, the stream id and the timestamp are zero,
\* whatever the mbuf held when it was allocated.
C32_ReservedHeaderBytesZero ==
    codec.op \in {"tx_worker", "tx_streamer"} =>
        \A i \in 0..(codec.cfg.vrt_hdr_bytes - 1) :
            i \notin HeaderFieldOffsets(codec.cfg) => codec.pkt[i + 1] = 0

\* the same for the TX streamer alone, which clears the header first
TxStreamerReservedZero ==
    codec.op = "tx_streamer" =>
        \A i \in 0..(codec.cfg.vrt_hdr_bytes - 1) :
            i \notin HeaderFieldOffsets(codec.cfg) => codec.pkt[i + 1] = 0

\* C33: with timestamp parsing enabled, the time a recv call reports is the
\* big-endian reading of the 8 bytes at tsf_offset of the call's first packet,
\* which is the tick value the encoder wrote there (16 + k in packet k).
C33_TimeIsBigEndianTicks ==
    ( /\ recvRet.exit = "data"
      /\ opt.parse_tsf
      /\ Len(FirstPacketOfCall.data) >= opt.tsf_offset + 8 ) =>
        /\ md.has_time_spec
        /\ md.time_spec = SubSeq(FirstPacketOfCall.data, opt.tsf_offset + 1,
                                 opt.tsf_offset + 8)
        /\ md.time_spec = U64(16 + FirstPacketOfCall.id)

\* both primaries have come back from init_resources with success
IcBothDone ==
    \A p \in PriProcs :
        pri[p].ops = 1 /\ pri[p].returned = "init_resources" /\ pri[p].rc = 0

\* C34: with one interconnect list read by both primaries, the rings the gNB
\* side holds as interconnect-TX are the rings the UE side holds as
\* interconnect-RX, ring by ring in list order, and the gNB side's RX rings are
\* the UE side's TX rings; a ring tagged pg_to_pu is TX on the gNB side and a
\* ring tagged pu_to_pg alone is RX there.
C34_InterconnectDirectionsMirror ==
    IcBothDone =>
        /\ pri["pg"].ic_tx_rings_ = pri["pu"].ic_rx_rings_
        /\ pri["pg"].ic_rx_rings_ = pri["pu"].ic_tx_rings_
        /\ Len(pri["pg"].ic_tx_rings_) + Len(pri["pg"].ic_rx_rings_) = Len(IcListOf("pg"))
        /\ \A i \in 1..Len(pri["pg"].ic_tx_rings_) :
               ~(FindsPuToPg(pri["pg"].ic_tx_rings_[i])
                 /\ ~FindsPgToPu(pri["pg"].ic_tx_rings_[i]))
        /\ \A i \in 1..Len(pri["pg"].ic_rx_rings_) :
               ~FindsPgToPu(pri["pg"].ic_rx_rings_[i])

\* both sides classified a list of three rings that mixes a tagged ring with
\* untagged ones, and the untagged ones went both ways
C34_Witness ==
    /\ IcBothDone
    /\ Len(IcListOf("pg")) = 3
    /\ \E i, j, k \in 1..3 :
           /\ IcListOf("pg")[i].name = "pu_to_pg"
           /\ IcListOf("pg")[j].name = "ic_a"
           /\ IcListOf("pg")[k].name = "ic_b"
    /\ "ic_a" \in {pri["pg"].ic_tx_rings_[i] : i \in 1..Len(pri["pg"].ic_tx_rings_)}
    /\ "ic_b" \in {pri["pu"].ic_tx_rings_[i] : i \in 1..Len(pri["pu"].ic_tx_rings_)}

(***************************************************************************)
(* Properties of the traffic switch                                        *)
(***************************************************************************)
\* the elements of a sequence
Range(s) == {s[i] : i \in 1..Len(s)}

\* s without its elements outside keep, order kept
RECURSIVE Restrict(_, _)
Restrict(s, keep) ==
    IF s = << >> THEN << >>
    ELSE IF Head(s) \in keep THEN << Head(s) >> \o Restrict(Tail(s), keep)
    ELSE Restrict(Tail(s), keep)

\* C35: in each direction every packet the switch dequeued from the source
\* ring was enqueued on the destination ring or freed, exactly once and never
\* both, and the packets that reached the destination ring are there (or were
\* taken from it) in the order the switch dequeued them.
C35_SwitchForwardsOrFreesInOrder ==
    \A dir \in SwDirs :
        LET out == sw.fwd[dir] \o sw.freed[dir]
        IN /\ Len(out) = Len(sw.taken[dir])
           /\ Range(out) = Range(sw.taken[dir])
           /\ Cardinality(Range(out)) = Len(out)
           /\ sw.fwd[dir] = Restrict(sw.taken[dir], Range(sw.fwd[dir]))
           /\ sw.got[dir] \o sw.rings[SwDst(dir)] = sw.fwd[dir]
           /\ sw.taken[dir] \o sw.rings[SwSrc(dir)] = sw.sent[dir]
           /\ sw.total[dir] = Len(sw.fwd[dir])

\* the switch has forwarded packets in both directions and has freed one the
\* destination ring had no room for, with a later packet forwarded after it
C35_Witness ==
    /\ \A dir \in SwDirs : sw.fwd[dir] # << >>
    /\ \E dir \in SwDirs :
           /\ sw.freed[dir] # << >>
           /\ \E i \in 1..Len(sw.fwd[dir]) : sw.fwd[dir][i] > sw.freed[dir][1]

(***************************************************************************)
(* Properties of SpscQueue                                                 *)
(***************************************************************************)
\* the items between tail and head, oldest first
SpscHeld == [i \in 1..(spsc.head - spsc.tail) |->
                spsc.buf[SlotOf(spsc.tail + i - 1, spsc.cap)]]

\* C36: with one thread in push and another in pop, under every interleaving
\* of their loads, slot accesses and stores: the items popped are the items
\* pushed, in push order, each once (what is pushed and not yet popped is
\* still queued); pop never reads a slot that push is writing or has not
\* written, and push never writes a slot pop is still reading.
C36_SpscHandsOverInOrder ==
    /\ ~spsc.raced
    /\ Len(spsc.popped) <= Len(spsc.pushed)
    /\ \A i \in 1..Len(spsc.popped) : spsc.popped[i] = spsc.pushed[i]
    /\ \A i, j \in 1..Len(spsc.pushed) : i < j => spsc.pushed[i] < spsc.pushed[j]
    /\ (spsc.p.pc = "idle" /\ spsc.c.pc = "idle") =>
           spsc.popped \o SpscHeld = spsc.pushed
    /\ spsc.c.pc \in {"read_done", "store_tail"} =>
           /\ Len(spsc.popped) < Len(spsc.pushed)
           /\ spsc.c.out = spsc.pushed[Len(spsc.popped) + 1]

\* the consumer is reading one slot of a two-slot queue while the producer
\* writes the other, after the slots have been reused and a push was refused
C36_Witness ==
    /\ spsc.cap = 2
    /\ spsc.p.pc = "write_done"
    /\ spsc.c.pc = "read_done"
    /\ Len(spsc.popped) >= 2
    /\ spsc.refused # << >>

\* C37: after any sequence of push, pop and clear calls the queue holds
\* between 0 and capacity items; push returns false exactly when it found
\* capacity items, pop returns false exactly when it found none, a call that
\* returns false leaves the queue as it found it, and a call that returns
\* true changes the count by one; clear leaves the queue empty.  The
\* counters pass 2^64 on the way.
C37_SizeWithinCapacity ==
    LET q == fifo.q
        b == fifo.last.before
    IN /\ ~SizeGt(spsc_size(q), q.cap)
       /\ fifo.last.op = "push" =>
              /\ ~fifo.last.ok <=> spsc_size(b) = b.cap
              /\ ~fifo.last.ok => q = b
              /\ fifo.last.ok => spsc_size(q) = spsc_size(b) + 1
       /\ fifo.last.op = "pop" =>
              /\ ~fifo.last.ok <=> spsc_size(b) = 0
              /\ ~fifo.last.ok => q = b
              /\ fifo.last.ok => spsc_size(q) = spsc_size(b) - 1
       /\ fifo.last.op = "clear" => spsc_size(q) = 0

\* a push was refused by a full queue whose head counter has passed 2^64
\* while its tail counter has not
C37_Witness ==
    /\ fifo.last.op = "push"
    /\ ~fifo.last.ok
    /\ fifo.q.tail < 0
    /\ fifo.q.head >= 0
    /\ fifo.q.cap = 2

\* the 0-based dequeue positions of the leaders of the blocks before the
\* block of position k
EarlierLeaders(k) == {l \in 0..(BlockLeader(k) - 1) : BlockLeader(l) = l}

\* C38: when the leader of a block did not decode, or decoded without a
\* timestamp, no other record of that block carries the timestamp of the
\* leader of an earlier block: the record has the timestamp of its own packet
\* or none.
C38_NoTimestampFromEarlierBlock ==
    worker.pc # "none" =>
        \A ch \in 1..cfg.num_channels :
            \A j \in 1..Len(dmxAssigned[ch]) :
                LET r == dmxAssigned[ch][j]
                    k == DequeueIndex(r)
                    own == OwnDecode(k).p
                    leader == OwnDecode(BlockLeader(k))
                IN (k # BlockLeader(k) /\ (~leader.ok \/ ~leader.p.have_tsf)) =>
                       /\ r.have_tsf = own.have_tsf
                       /\ r.tsf_ticks = own.tsf_ticks
                       /\ \A l \in EarlierLeaders(k) :
                              (OwnDecode(l).ok /\ OwnDecode(l).p.have_tsf /\ r.have_tsf) =>
                                  r.tsf_ticks # OwnDecode(l).p.tsf_ticks

\* the half of C38 for a leader that decoded without a timestamp
C38_LeaderWithoutTimestamp ==
    worker.pc # "none" =>
        \A ch \in 1..cfg.num_channels :
            \A j \in 1..Len(dmxAssigned[ch]) :
                LET r == dmxAssigned[ch][j]
                    k == DequeueIndex(r)
                    own == OwnDecode(k).p
                    leader == OwnDecode(BlockLeader(k))
                IN (k # BlockLeader(k) /\ leader.ok /\ ~leader.p.have_tsf) =>
                       (r.have_tsf = own.have_tsf /\ r.tsf_ticks = own.tsf_ticks)

\* the packets the last recv call dequeued
PacketsOfCall == SubSeq(rxTaken, Len(rxTaken) - recvRet.n_dequeued + 1, Len(rxTaken))

\* C39: a dequeued packet whose data is shorter than vrt_hdr_bytes contributes
\* no samples: a recv call that dequeued only such packets returns 0 and
\* writes nothing to the caller's buffers, and in any call the samples
\* delivered are no more than the packets' payloads hold.
C39_ShortPacketContributesNothing ==
    recvRet.exit = "data" =>
        /\ (\A i \in 1..Len(PacketsOfCall) : PayloadWraps(PacketsOfCall[i])) =>
               /\ recvRet.n = 0
               /\ \A ch \in 1..get_num_channels : chBuffs[ch] = << >>
        /\ \A ch \in 1..get_num_channels :
               Len(chBuffs[ch]) <= Len(ConcatPayload(PacketsOfCall, ch))

\* C40: a call of stop_rx_worker on the handle of a running worker returns,
\* with the worker thread ended, whether or not anybody else clears run_flag.
C40_StopRxWorkerReturns == (joiner = "joining") ~> (joiner = "returned")

\* stop_rx_worker does return when the owner of run_flag clears it
C40_ReturnsOnceFlagCleared == (joiner = "joining" /\ ~run_flag) ~> (joiner = "returned")
====
